---- MODULE Spec2Model ----
(***************************************************************************)
(* Caching and media-proxy layer of the data-proxy service                 *)
(* (src/website/data-proxy): the file cache, the scholar detail resolver,  *)
(* the avatar resolver and the email-image resolver.                       *)
(*                                                                         *)
(* The cache directories are modelled as functions from scholar id (and    *)
(* file extension) to a file record [exists, content, mtime].  Time is a   *)
(* clock in seconds that moves in quanta of the retry delay.  Each request *)
(* handler is one action; what the remote services answer during a request *)
(* is an input of the action.  The variable last holds what the most       *)
(* recent request returned and what network and cache accesses it made.    *)
(* Detail requests that overlap are modelled by the two steps a handler    *)
(* takes on the event loop, before and after its await of the upstream     *)
(* call; inflight holds the position of each such request.                 *)
(* The scan of the scraped profile page for the avatar URL is modelled     *)
(* chunk by chunk; scan holds the page, how much of it has arrived, the    *)
(* buffer and the result.                                                  *)
(*                                                                         *)
(* The backend service (src/website/backend/main.py) has a cache of its    *)
(* own for the avatars it proxies and an in-memory cache of the JSON files *)
(* it loads; backend holds both.  Its clock moves in seconds.              *)
(*                                                                         *)
(* The avatar endpoint touches the avatar directory only, and the detail,  *)
(* email and cache-clear endpoints never touch it, so requests of the two  *)
(* families commute; a behaviour serves one family, chosen initially.      *)
(***************************************************************************)
EXTENDS Naturals, Sequences, FiniteSets, TLC

VARIABLES now, detail, avatar, email, last, family, inflight, scan, backend

vars == <<now, detail, avatar, email, last, family, inflight, scan, backend>>

(***************************************************************************)
(* Bounds of the model.  The three TTLs are settings of the service        *)
(* (config.py, overridable from the environment); the model runs the       *)
(* service with short TTLs so that expiry happens within MaxNow.           *)
(***************************************************************************)
MaxNow == 10
AminerCacheTtl == 10
AvatarCacheTtl == 10
EmailCacheTtl == 10

(* The TTL settings in seconds.  config.py declares aminer_cache_ttl and
   avatar_cache_ttl; email_service.py reads settings.email_cache_ttl (and
   settings.email_cache_dir), which config.py does not declare: the model
   takes it to be a third setting of the same kind, the TTL of the email
   namespace and of its markers. *)
aminer_cache_ttl == AminerCacheTtl
avatar_cache_ttl == AvatarCacheTtl
email_cache_ttl == EmailCacheTtl

(* Program constants. *)
max_attempts == 2
retry_delay == 5
DEFAULT_AVATAR_SIZE == 1676

Ids == {"A", "B"}
(* the log ids that uuid4 generates in the model *)
LogIds == {1, 2}
(* the contents a person's upstream record takes in the model; two responses
   for one person differ by their log id *)
Versions == {1}
Forces == {TRUE, FALSE}

(***************************************************************************)
(* Files.                                                                  *)
(***************************************************************************)
NoContent == <<>>
NoFile == [exists |-> FALSE, content |-> NoContent, mtime |-> 0]
File(c, t) == [exists |-> TRUE, content |-> c, mtime |-> t]

(* the file names (after the id) of the avatar and the email directory *)
AvatarNames == {".default", ".jpg", ".jpeg", ".png"}
EmailNames == {".no_email", ".png", ".jpg", ".jpeg", ".gif", ".webp"}

(* cache_service.is_cache_valid *)
(* variants of is_cache_valid: the comparison turned around; the age ignored *)
is_cache_valid_inverted(f, ttl, t) ==
    IF ~f.exists THEN FALSE ELSE (t - f.mtime) > ttl
is_cache_valid_no_ttl(f, ttl, t) == f.exists
is_cache_valid(f, ttl, t) ==
    IF ~f.exists THEN FALSE ELSE (t - f.mtime) < ttl

(***************************************************************************)
(* JSON documents of the detail namespace.  A document is the dict         *)
(* [has_raw, email, name, log_id, enriched]: has_raw says whether the key  *)
(* "raw_response" is present and email is                                  *)
(* raw_response.data[0].data[0].profile.email; name stands for the         *)
(* normalized fields, log_id for the generated log id.                     *)
(***************************************************************************)
EmptyDict == [has_raw |-> FALSE, email |-> "", name |-> 0, log_id |-> 0, enriched |-> FALSE]

(* json.dump: the text of a dict; a truncated text is <<"{">>. *)
JsonDump(d) == <<"{", d, "}">>
TruncatedText == <<"{">>

(* cache_service.read_json_cache: the dict, or None when parsing fails *)
read_json_cache(f) ==
    IF f.exists /\ Len(f.content) = 3 /\ f.content[1] = "{" /\ f.content[3] = "}"
    THEN [ok |-> TRUE, value |-> f.content[2]]
    ELSE [ok |-> FALSE, value |-> EmptyDict]

(* variant of write_json_cache: the text left half written *)
write_json_cache_torn(f, d, t, w) ==
    IF w = "ok" THEN File(TruncatedText, t) ELSE f

(* variant of write_json_cache: the new document merged into the old one,
   whose log id is kept *)
write_json_cache_merged(f, d, t, w) ==
    IF w = "ok"
    THEN File(JsonDump(IF read_json_cache(f).ok
                       THEN [d EXCEPT !.log_id = read_json_cache(f).value.log_id]
                       ELSE d), t)
    ELSE f

(* cache_service.write_json_cache: w = "ok" writes the text; w = "fail" is
   open() raising, which leaves the file as it was and returns False *)
write_json_cache(f, d, t, w) ==
    IF w = "ok" THEN File(JsonDump(d), t) ELSE f

(* variant of clear_cache_directory: the entries counted, not the files
   deleted *)
clear_cache_directory_count_entries(dir) ==
    [dir |-> [i \in DOMAIN dir |-> NoFile], count |-> Cardinality(DOMAIN dir)]

(* cache_service.clear_cache_directory on a namespace, a function from id to
   file: every file is unlinked and counted *)
clear_cache_directory(dir) ==
    [dir |-> [i \in DOMAIN dir |-> NoFile],
     count |-> Cardinality({ i \in DOMAIN dir : dir[i].exists })]

(***************************************************************************)
(* The AMiner web API as the resolver sees it.  One HTTP attempt ends      *)
(* "ok" (a 2xx answer with a body), "transport" (connection error or       *)
(* timeout) or "status" (raise_for_status on a non-2xx answer); the last   *)
(* two are both httpx.HTTPError.  A body is JSON of one of the kinds       *)
(* "found" (data[0].data[0] is the person), "notfound" (data[0].succeed is *)
(* false), "malformed" (JSON without data[0].data[0]), or it is "nonjson". *)
(***************************************************************************)
NoPayload == [kind |-> "none", name |-> 0, email |-> ""]
FoundPayloads == [kind : {"found"}, name : Versions, email : {"/magic?e"}]
Payloads ==
    FoundPayloads \cup
    { [kind |-> k, name |-> 0, email |-> ""] : k \in {"notfound", "malformed", "nonjson"} }
Outcomes ==
    [net : {"ok"}, payload : Payloads] \cup
    [net : {"transport", "status"}, payload : {NoPayload}]
(* the outcomes of the attempts of one call; the second attempt's outcome is
   kept equal to the first's when the first attempt succeeds (it is not made) *)
AttemptSeqs == { os \in Outcomes \X Outcomes : os[1].net = "ok" => os[2] = os[1] }

(* aminer_service.fetch_aminer_web_api: the retry loop over the attempts'
   outcomes os; the result carries the number of HTTP attempts made and of
   sleeps taken.  status 200: a parsed body is returned; 502: the
   HTTPException raised when the attempts are exhausted; 500: response.json()
   raised, which no handler of the loop catches. *)
RECURSIVE fetch_attempt(_, _)
fetch_attempt(attempt, os) ==
    IF attempt > max_attempts
    THEN [status |-> 502, payload |-> NoPayload, attempts |-> max_attempts,
          slept |-> max_attempts - 1]
    ELSE IF os[attempt].net = "ok"
         THEN IF os[attempt].payload.kind = "nonjson"
              THEN [status |-> 500, payload |-> NoPayload, attempts |-> attempt, slept |-> attempt - 1]
              ELSE [status |-> 200, payload |-> os[attempt].payload, attempts |-> attempt,
                    slept |-> attempt - 1]
         ELSE IF attempt < max_attempts
              THEN fetch_attempt(attempt + 1, os)
              ELSE [status |-> 502, payload |-> NoPayload, attempts |-> attempt, slept |-> attempt - 1]

(* variant of fetch_aminer_web_api: the retry made without the sleep *)
fetch_aminer_web_api_no_delay(os) == [fetch_attempt(1, os) EXCEPT !.slept = 0]

(* variant of fetch_aminer_web_api: no second attempt *)
fetch_aminer_web_api_once(os) ==
    IF os[1].net = "ok" THEN fetch_attempt(1, os)
    ELSE [status |-> 502, payload |-> NoPayload, attempts |-> 1, slept |-> 0]
fetch_aminer_web_api(os) == fetch_attempt(1, os)

(* aminer_service.convert_web_api_to_official_format with the enriched fields
   of extract_enriched_fields added (aminer_stats is always among them);
   uuid is the generated log id.  A body without data[0].data[0] raises 500. *)
convert_web_api_to_official_format(p, uuid) ==
    IF p.kind = "found"
    THEN [ok |-> TRUE,
          value |-> [has_raw |-> FALSE, email |-> "", name |-> p.name, log_id |-> uuid,
                     enriched |-> TRUE]]
    ELSE [ok |-> FALSE, value |-> EmptyDict]

(* the "succeed is False" test of get_scholar_detail *)
(* variant of succeed_is_false: the flag looked up on the person, where it
   never is *)
succeed_is_false_on_person(p) == FALSE
succeed_is_false(p) == p.kind = "notfound"

(* the state of a detail record at time t, as the claims name it *)
DetailState(f, t) ==
    IF ~f.exists THEN "absent"
    ELSE IF ~read_json_cache(f).ok THEN "unreadable"
    ELSE IF is_cache_valid(f, aminer_cache_ttl, t) THEN "valid"
    ELSE "expired"

(***************************************************************************)
(* aminer_service.get_scholar_detail on detail file f at time t.  The      *)
(* result is the file afterwards, the time at return, the status (200, or  *)
(* the status of the exception raised), the JSON returned, and the         *)
(* accesses made: hit (answered from the cache), upstream (calls of        *)
(* fetch_aminer_web_api), attempts (HTTP requests), writes (calls of       *)
(* write_json_cache), written (the write succeeded).                       *)
(***************************************************************************)
(* variant of DetailResult: the cache write made once per attempt *)
DetailResult_write_per_attempt(f, t, st, js, hit, up, att, wr, wrn) ==
    [file |-> f, now |-> t, status |-> st, json |-> js, hit |-> hit,
     upstream |-> up, attempts |-> att, writes |-> wr * att, written |-> wrn]

DetailResult(f, t, st, js, hit, up, att, wr, wrn) ==
    [file |-> f, now |-> t, status |-> st, json |-> js, hit |-> hit,
     upstream |-> up, attempts |-> att, writes |-> wr, written |-> wrn]

(* variant of detail_cache_hit: a record that cannot be read counted as a hit *)
detail_cache_hit_unparsed(f, t, force_refresh) ==
    /\ ~force_refresh
    /\ f.exists
    /\ is_cache_valid(f, aminer_cache_ttl, t)

(* variant of detail_cache_hit: force_refresh not consulted *)
detail_cache_hit_unforced(f, t, force_refresh) ==
    /\ f.exists
    /\ is_cache_valid(f, aminer_cache_ttl, t)
    /\ read_json_cache(f).ok

detail_cache_hit(f, t, force_refresh) ==
    /\ ~force_refresh
    /\ f.exists
    /\ is_cache_valid(f, aminer_cache_ttl, t)
    /\ read_json_cache(f).ok

get_scholar_detail(f, t, force_refresh, os, uuid, w) ==
    IF detail_cache_hit(f, t, force_refresh)
    THEN DetailResult(f, t, 200, read_json_cache(f).value, TRUE, 0, 0, 0, FALSE)
    ELSE LET r  == fetch_aminer_web_api(os)
             t2 == t + r.slept * retry_delay
         IN  IF r.status # 200
             THEN DetailResult(f, t2, r.status, EmptyDict, FALSE, 1, r.attempts, 0, FALSE)
             ELSE IF succeed_is_false(r.payload)
             THEN DetailResult(f, t2, 404, EmptyDict, FALSE, 1, r.attempts, 0, FALSE)
             ELSE LET c == convert_web_api_to_official_format(r.payload, uuid)
                  IN  IF ~c.ok
                      THEN DetailResult(f, t2, 500, EmptyDict, FALSE, 1, r.attempts, 0, FALSE)
                      ELSE DetailResult(write_json_cache(f, c.value, t2, w), t2, 200, c.value,
                                        FALSE, 1, r.attempts, 1, w = "ok")


(***************************************************************************)
(* Avatar resolver (avatar_service.py).  An avatar's bytes are a record    *)
(* with their length and the picture they show.  An avatar URL is known by *)
(* its suffix, one of those the avatar pattern admits.                     *)
(***************************************************************************)
NoImage == [len |-> 0, pic |-> 0, format |-> "none", bg |-> "none"]
AvatarBytes(n, p) == [len |-> n, pic |-> p, format |-> "bytes", bg |-> "none"]
AvatarImages ==
    { AvatarBytes(DEFAULT_AVATAR_SIZE, 1), AvatarBytes(DEFAULT_AVATAR_SIZE + 1, 1),
      AvatarBytes(DEFAULT_AVATAR_SIZE + 1, 2) }
UrlSuffixes == {".png", ".jpg", ".jpeg"}
(* the suffixes of the URLs in the pages served to the model *)
PageSuffixes == {".png", ".jpg"}
NoUrl == ""
(* Content-Type headers of the download; "" is an answer without the header *)
ContentTypes == {"image/jpeg", "image/png", "application/octet-stream", ""}

(* what the Firecrawl scrape does: "found" (200, the page holds an avatar URL
   with suffix url), "absent" (200, no URL in the page), "http" (non-200),
   "timeout", "error" (any other exception) *)
Scrapes ==
    [kind : {"found"}, url : PageSuffixes] \cup
    [kind : {"absent", "http", "timeout", "error"}, url : {NoUrl}]
(* what the download does *)
NoDownload == [kind |-> "none", image |-> NoImage, ctype |-> ""]
Downloads ==
    [kind : {"ok"}, image : AvatarImages, ctype : ContentTypes] \cup
    [kind : {"timeout", "status", "error"}, image : {NoImage}, ctype : {""}]

(* variant of fetch_avatar_url_from_firecrawl: a failed scrape reported as a
   page without avatar URL *)
fetch_avatar_url_lenient(sc) ==
    CASE sc.kind = "found"   -> [status |-> 200, url |-> sc.url]
      [] OTHER               -> [status |-> 200, url |-> NoUrl]

(* avatar_service.fetch_avatar_url_from_firecrawl *)
fetch_avatar_url_from_firecrawl(sc) ==
    CASE sc.kind = "found"   -> [status |-> 200, url |-> sc.url]
      [] sc.kind = "absent"  -> [status |-> 200, url |-> NoUrl]
      [] sc.kind = "timeout" -> [status |-> 504, url |-> NoUrl]
      [] OTHER               -> [status |-> 502, url |-> NoUrl]

(* variant of download_avatar: a timeout reported like any other error *)
download_avatar_timeout_as_error(dl) ==
    CASE dl.kind = "ok"      -> [status |-> 200, image |-> dl.image,
                                 ctype |-> IF dl.ctype = "" THEN "image/jpeg" ELSE dl.ctype]
      [] OTHER               -> [status |-> 502, image |-> NoImage, ctype |-> ""]

(* avatar_service.download_avatar *)
download_avatar(dl) ==
    CASE dl.kind = "ok"      -> [status |-> 200, image |-> dl.image,
                                 ctype |-> IF dl.ctype = "" THEN "image/jpeg" ELSE dl.ctype]
      [] dl.kind = "timeout" -> [status |-> 504, image |-> NoImage, ctype |-> ""]
      [] OTHER               -> [status |-> 502, image |-> NoImage, ctype |-> ""]

(* avatar_service.get_file_extension *)
get_file_extension(content_type, url) ==
    IF content_type \in {"image/jpeg", "image/jpg"} THEN ".jpg"
    ELSE IF content_type = "image/png" THEN ".png"
    ELSE IF url # NoUrl THEN url ELSE ".jpg"

(* variant of AvatarExts: .png not looked up *)
AvatarExts_without_png == <<".jpg", ".jpeg">>

(* the cache lookup of get_scholar_avatar: the extensions in the order tried *)
AvatarExts == <<".jpg", ".jpeg", ".png">>
RECURSIVE cached_avatar_ext(_, _, _, _)
cached_avatar_ext(dir, t, force_refresh, k) ==
    IF k > Len(AvatarExts) THEN ""
    ELSE IF dir[AvatarExts[k]].exists /\ ~force_refresh
            /\ is_cache_valid(dir[AvatarExts[k]], avatar_cache_ttl, t)
         THEN AvatarExts[k]
         ELSE cached_avatar_ext(dir, t, force_refresh, k + 1)

AvatarResult(d, st, img, ct, hit, sc, dl, wr, wrn) ==
    [dir |-> d, status |-> st, image |-> img, ctype |-> ct, hit |-> hit,
     scrapes |-> sc, downloads |-> dl, writes |-> wr, written |-> wrn]

(* variant of save_avatar: the marker removed before the write is tried *)
save_avatar_unmarks_first(dir, ext, image, t, w) ==
    IF w = "ok"
    THEN [dir EXCEPT ![ext] = File(image, t), ![".default"] = NoFile]
    ELSE [dir EXCEPT ![".default"] = NoFile]

(* the write of the positive record and the removal of the marker after it;
   w = "fail" is open() raising, caught and logged *)
save_avatar(dir, ext, image, t, w) ==
    IF w = "ok"
    THEN [dir EXCEPT ![ext] = File(image, t), ![".default"] = NoFile]
    ELSE dir

(* variant of default_marker_hit: the marker not looked at *)
default_marker_hit_never(dir, force_refresh) == FALSE

(* variant of default_marker_hit: the negation of force_refresh dropped *)
default_marker_hit_forced(dir, force_refresh) == dir[".default"].exists /\ force_refresh

(* the marker check of get_scholar_avatar (line 200) *)
default_marker_hit(dir, force_refresh) == dir[".default"].exists /\ ~force_refresh

(* variant of is_default_avatar: the size compared with > *)
is_default_avatar_larger(image) == image.len > DEFAULT_AVATAR_SIZE

(* variant of is_default_avatar: the size compared with >= *)
is_default_avatar_at_least(image) == image.len >= DEFAULT_AVATAR_SIZE

(* the default-avatar test of get_scholar_avatar (line 229) *)
is_default_avatar(image) == image.len = DEFAULT_AVATAR_SIZE

(* avatar_service.get_scholar_avatar on the avatar files dir of one id *)
get_scholar_avatar(dir, t, force_refresh, sc, dl, w) ==
    IF default_marker_hit(dir, force_refresh)
    THEN AvatarResult(dir, 404, NoImage, "", TRUE, 0, 0, 0, FALSE)
    ELSE LET ext == cached_avatar_ext(dir, t, force_refresh, 1) IN
    IF ext # ""
    THEN AvatarResult(dir, 200, dir[ext].content,
                      IF ext \in {".jpg", ".jpeg"} THEN "image/jpeg" ELSE "image/png",
                      TRUE, 0, 0, 0, FALSE)
    ELSE LET u == fetch_avatar_url_from_firecrawl(sc) IN
    IF u.status # 200
    THEN AvatarResult(dir, u.status, NoImage, "", FALSE, 1, 0, 0, FALSE)
    ELSE IF u.url = NoUrl
    THEN AvatarResult([dir EXCEPT ![".default"] = File(NoContent, t)], 404, NoImage, "",
                      FALSE, 1, 0, 0, FALSE)
    ELSE LET d == download_avatar(dl) IN
    IF d.status # 200
    THEN AvatarResult(dir, d.status, NoImage, "", FALSE, 1, 1, 0, FALSE)
    ELSE IF is_default_avatar(d.image)
    THEN AvatarResult([dir EXCEPT ![".default"] = File(NoContent, t)], 404, NoImage, "",
                      FALSE, 1, 1, 0, FALSE)
    ELSE AvatarResult(save_avatar(dir, get_file_extension(d.ctype, u.url), d.image, t, w),
                      200, d.image, d.ctype, FALSE, 1, 1, 1, w = "ok")

(***************************************************************************)
(* Email-image resolver (email_service.py).  An image is known by the      *)
(* picture it shows, its format and its background: "transparent" (it has  *)
(* an alpha channel), "opaque", or "white" (pasted on a white canvas).     *)
(* Bytes that are no image have the format "undecodable".                  *)
(***************************************************************************)
Picture(p, f, b) == [len |-> 0, pic |-> p, format |-> f, bg |-> b]
EmailImages ==
    { Picture(1, "PNG", "transparent"), Picture(1, "PNG", "opaque"),
      Picture(1, "undecodable", "none") }
NoFetch == [kind |-> "none", image |-> NoImage]
EmailFetches ==
    [kind : {"ok"}, image : EmailImages] \cup [kind : {"error"}, image : {NoImage}]
OutputFormats == {"PNG", "JPEG"}

(* email_service.convert_transparent_to_white_bg: the converted bytes and the
   content type; bytes that cannot be opened come back unchanged as image/png *)
convert_transparent_to_white_bg(image, output_format) ==
    IF image.format \notin {"PNG", "JPEG"}
    THEN [image |-> image, ctype |-> "image/png"]
    ELSE [image |-> Picture(image.pic,
                            IF output_format = "JPEG" THEN "JPEG" ELSE "PNG",
                            IF image.bg = "transparent" THEN "white" ELSE image.bg),
          ctype |-> IF output_format = "JPEG" THEN "image/jpeg" ELSE "image/png"]

(* email_service.fetch_email_image_from_aminer *)
fetch_email_image_from_aminer(email_path, fo) ==
    IF email_path # "/magic?e" THEN [status |-> 400, image |-> NoImage]
    ELSE IF fo.kind = "ok" THEN [status |-> 200, image |-> fo.image]
    ELSE [status |-> 502, image |-> NoImage]

EmailResult(f, d, t, st, img, ct, hit, dr, fe, wr, wrn) ==
    [file |-> f, dir |-> d, now |-> t, status |-> st, image |-> img, ctype |-> ct,
     hit |-> hit, refreshes |-> dr.refreshes, rereads |-> dr.rereads,
     upstream |-> dr.upstream, attempts |-> dr.attempts, fetches |-> fe,
     writes |-> wr, written |-> wrn]

NoRefresh == [refreshes |-> 0, rereads |-> 0, upstream |-> 0, attempts |-> 0]

(* the email path of a parsed detail record: raw_response...profile.email *)
email_path_of(d) == IF d.ok /\ d.value.has_raw THEN d.value.email ELSE ""

(* variant of extract_email_path: the refresh made with force_refresh=False *)
extract_email_path_unforced(f, t, os, uuid, wd) ==
    IF read_json_cache(f).value.has_raw
    THEN [path |-> email_path_of(read_json_cache(f)), file |-> f, now |-> t, acc |-> NoRefresh]
    ELSE LET r == get_scholar_detail(f, t, FALSE, os, uuid, wd)
         IN  [path |-> IF r.status = 200 THEN email_path_of(read_json_cache(r.file)) ELSE "",
              file |-> r.file, now |-> r.now,
              acc |-> [refreshes |-> 1, rereads |-> IF r.status = 200 THEN 1 ELSE 0,
                       upstream |-> r.upstream, attempts |-> r.attempts]]

(* the extraction of the email path (email_service.py lines 235-279): the
   path, the detail file and the time afterwards, and the accesses made.  A
   record without "raw_response" is refreshed with force_refresh=True and read
   again; an exception of the refresh is caught and leaves the path empty. *)
extract_email_path(f, t, os, uuid, wd) ==
    IF read_json_cache(f).value.has_raw
    THEN [path |-> email_path_of(read_json_cache(f)), file |-> f, now |-> t, acc |-> NoRefresh]
    ELSE LET r == get_scholar_detail(f, t, TRUE, os, uuid, wd)
         IN  [path |-> IF r.status = 200 THEN email_path_of(read_json_cache(r.file)) ELSE "",
              file |-> r.file, now |-> r.now,
              acc |-> [refreshes |-> 1, rereads |-> IF r.status = 200 THEN 1 ELSE 0,
                       upstream |-> r.upstream, attempts |-> r.attempts]]

(* variant of mark_no_email: the marker created, the cached images left *)
mark_no_email_keeping_images(dir, t) ==
    [dir EXCEPT ![".no_email"] = File(NoContent, t)]

(* the "no email" branch (lines 281-305) on the email files dir of one id *)
mark_no_email(dir, t) ==
    [x \in EmailNames |->
        IF x = ".no_email" THEN File(NoContent, t)
        ELSE IF x \in {".png", ".jpg", ".gif", ".webp"} THEN NoFile
        ELSE dir[x]]

(* the write of the positive record (lines 366-390); we = "fail" is open()
   raising, caught and logged *)
save_email_image(dir, image, t, we) ==
    IF we = "ok"
    THEN [x \in EmailNames |->
            IF x = ".png" THEN File(image, t)
            ELSE IF x \in {".no_email", ".jpg", ".jpeg", ".gif", ".webp"} THEN NoFile
            ELSE dir[x]]
    ELSE dir

(* variant of in_requested_format: the cached bytes returned as they are *)
in_requested_format_unconverted(image, output_format) ==
    [image |-> image, ctype |-> "image/png"]

(* the answer in the requested format (lines 329-335 and 392-397) *)
in_requested_format(image, output_format) ==
    IF output_format = "JPEG"
    THEN convert_transparent_to_white_bg(image, "JPEG")
    ELSE [image |-> image, ctype |-> "image/png"]

(* variant of no_email_marker_hit: force_refresh not consulted *)
no_email_marker_hit_unforced(dir, t, force_refresh) ==
    is_cache_valid(dir[".no_email"], email_cache_ttl, t)

(* the marker check of get_scholar_email_image (line 207) *)
no_email_marker_hit(dir, t, force_refresh) ==
    ~force_refresh /\ is_cache_valid(dir[".no_email"], email_cache_ttl, t)

(* variant of person_cache_status: the existence test left out *)
person_cache_status_unchecked(f) == IF ~read_json_cache(f).ok THEN 500 ELSE 200

(* Step 1 of get_scholar_email_image (lines 218-233), the read of the cached
   detail record: 404 when there is no file, 500 when it cannot be read (or
   holds an empty dict), 200 when the request goes on *)
person_cache_status(f) ==
    IF ~f.exists THEN 404 ELSE IF ~read_json_cache(f).ok THEN 500 ELSE 200

(* variant of to_cached_form: the fetched image converted to the format asked *)
to_cached_form_as_requested(image, output_format) ==
    convert_transparent_to_white_bg(image, output_format).image

(* Step 4 (lines 358-361): the bytes to cache, always converted as "PNG",
   whatever output_format the request gave *)
to_cached_form(image, output_format) ==
    convert_transparent_to_white_bg(image, "PNG").image

(* email_service.get_scholar_email_image on detail file f and the email files
   dir of one id, with convert_to_white_bg=True as the route passes it *)
get_scholar_email_image(f, dir, t, force_refresh, output_format, os, uuid, wd, fo, we) ==
    IF no_email_marker_hit(dir, t, force_refresh)
    THEN EmailResult(f, dir, t, 404, NoImage, "", TRUE, NoRefresh, 0, 0, FALSE)
    ELSE IF person_cache_status(f) # 200
    THEN EmailResult(f, dir, t, person_cache_status(f), NoImage, "", FALSE, NoRefresh,
                     0, 0, FALSE)
    ELSE LET e == extract_email_path(f, t, os, uuid, wd) IN
    IF e.path = ""
    THEN EmailResult(e.file, mark_no_email(dir, e.now), e.now, 404, NoImage, "", FALSE,
                     e.acc, 0, 0, FALSE)
    ELSE IF ~force_refresh /\ dir[".png"].exists
            /\ is_cache_valid(dir[".png"], email_cache_ttl, e.now)
    THEN LET a == in_requested_format(dir[".png"].content, output_format)
         IN  EmailResult(e.file, dir, e.now, 200, a.image, a.ctype, TRUE, e.acc, 0, 0, FALSE)
    ELSE LET g == fetch_email_image_from_aminer(e.path, fo) IN
    IF g.status # 200
    THEN EmailResult(e.file, dir, e.now, g.status, NoImage, "", FALSE, e.acc, 1, 0, FALSE)
    ELSE LET c == to_cached_form(g.image, output_format)
             a == in_requested_format(c, output_format)
         IN  EmailResult(e.file, save_email_image(dir, c, e.now, we), e.now, 200,
                         a.image, a.ctype, FALSE, e.acc, 1, 1, we = "ok")

(***************************************************************************)
(* The endpoints (routes/aminer.py).  A header that was not sent is None,  *)
(* and `not header` holds of None and of the empty string alike: both are  *)
(* "" here.  format is the query parameter as it was sent.                 *)
(***************************************************************************)
Headers ==
    [authorization : {"", "Bearer t"}, x_signature : {"", "sig"}, x_timestamp : {"", "ts"}]
Formats == {"png", "jpg", "jpeg", "JPG", "gif"}

(* variant of validate_required_headers: X-Timestamp not looked at *)
validate_required_headers_two(h) ==
    IF h.authorization = "" THEN 400
    ELSE IF h.x_signature = "" THEN 400
    ELSE 200

(* the validation of the required headers (lines 47-56 and 167-176): 400, or
   200 when the request goes on *)
validate_required_headers(h) ==
    IF h.authorization = "" THEN 400
    ELSE IF h.x_signature = "" THEN 400
    ELSE IF h.x_timestamp = "" THEN 400
    ELSE 200

(* str.upper on the formats of the model *)
upper(format) ==
    CASE format = "png"            -> "PNG"
      [] format \in {"jpg", "JPG"} -> "JPG"
      [] format = "jpeg"           -> "JPEG"
      [] OTHER                     -> "GIF"

(* the validation of the format parameter (lines 178-185) *)
validate_format(format) == IF upper(format) \notin {"PNG", "JPG", "JPEG"} THEN 400 ELSE 200

(* the normalisation of JPG to JPEG (lines 187-189) *)
normalize_format(format) == IF upper(format) = "JPG" THEN "JPEG" ELSE upper(format)

(* routes.aminer.get_aminer_scholar_detail_endpoint *)
get_aminer_scholar_detail_endpoint(h, f, t, force_refresh, os, uuid, w) ==
    IF validate_required_headers(h) # 200
    THEN DetailResult(f, t, validate_required_headers(h), EmptyDict, FALSE, 0, 0, 0, FALSE)
    ELSE get_scholar_detail(f, t, force_refresh, os, uuid, w)

(* routes.aminer.get_scholar_email_endpoint *)
get_scholar_email_endpoint(h, format, f, dir, t, force_refresh, os, uuid, wd, fo, we) ==
    IF validate_required_headers(h) # 200
    THEN EmailResult(f, dir, t, validate_required_headers(h), NoImage, "", FALSE, NoRefresh,
                     0, 0, FALSE)
    ELSE IF validate_format(format) # 200
    THEN EmailResult(f, dir, t, validate_format(format), NoImage, "", FALSE, NoRefresh,
                     0, 0, FALSE)
    ELSE get_scholar_email_image(f, dir, t, force_refresh, normalize_format(format),
                                 os, uuid, wd, fo, we)

(***************************************************************************)
(* The streaming scan of the scraped page                                  *)
(* (avatar_service.fetch_avatar_url_from_firecrawl, lines 58-91).  Text is *)
(* a sequence of characters of a five-letter alphabet: "h" is the literal  *)
(* head of the avatar pattern up to the scholar id and its underscore,     *)
(* "d" a digit, "p" and "j" the extensions .png and .jpg, "!" the mark     *)
(* that starts a size suffix, "x" any other character.  The pattern is     *)
(* then  h d+ (p|j) (?:! d+)?.  The service searches the buffer only once  *)
(* it holds more than buffer_size characters, and then keeps the last      *)
(* keep_chars of them; both are run at a small scale here.                 *)
(***************************************************************************)
ScanBufferSize == 6
ScanKeep == 5
MaxPage == 10
MaxFill == 6

buffer_size == ScanBufferSize
keep_chars == ScanKeep

NoText == <<>>

(* the end of the run of digits of text that starts at position i (i - 1 when
   text[i] is no digit) *)
RECURSIVE digits_end(_, _)
digits_end(text, i) ==
    IF i <= Len(text) /\ text[i] = "d" THEN digits_end(text, i + 1) ELSE i - 1

(* avatar_pattern matched at position i of text: the position where the match
   ends, 0 if there is no match at i.  The digit runs and the optional size
   suffix are greedy. *)
avatar_pattern(text, i) ==
    IF i > Len(text) \/ text[i] # "h" THEN 0
    ELSE LET j == digits_end(text, i + 1)
             e == j + 1
         IN  IF j < i + 1 \/ e > Len(text) \/ text[e] \notin {"p", "j"} THEN 0
             ELSE IF e + 1 <= Len(text) /\ text[e + 1] = "!"
                     /\ digits_end(text, e + 2) >= e + 2
                  THEN digits_end(text, e + 2)
                  ELSE e

(* re.search(avatar_pattern, text).group(0): the leftmost match, NoText for
   None *)
re_search(text) ==
    LET S == { i \in 1..Len(text) : avatar_pattern(text, i) # 0 }
    IN  IF S = {} THEN NoText
        ELSE LET i == CHOOSE m \in S : \A n \in S : m <= n
             IN  SubSeq(text, i, avatar_pattern(text, i))

(* re.sub(r'!\d+$', '', avatar_url) *)
strip_size(url) ==
    LET S == { k \in 1..Len(url) : /\ url[k] = "!" /\ k < Len(url)
                                   /\ digits_end(url, k + 1) = Len(url) }
    IN  IF S = {} THEN url
        ELSE SubSeq(url, 1, (CHOOSE m \in S : \A n \in S : m <= n) - 1)

(* the search of a buffer, at a check of the loop or at the final check *)
search_buffer(buffer) == strip_size(re_search(buffer))

(* variant of last_chars: the buffer emptied *)
last_chars_none(buffer, n) == NoText

(* buffer[-n:] *)
last_chars(buffer, n) ==
    IF Len(buffer) <= n THEN buffer ELSE SubSeq(buffer, Len(buffer) - n + 1, Len(buffer))

(* the scan in progress: the page, the number of its characters that have
   arrived, the buffer, the stage ("idle", "streaming", "returned"), the URL
   returned (NoText for None) and cut, the number of characters that had
   arrived when the buffer was last truncated (0 if it never was) *)
NoScan == [page |-> NoText, pos |-> 0, buffer |-> NoText, stage |-> "idle", url |-> NoText,
           cut |-> 0]

(* the pages scraped in the model: filler, a candidate, filler and a second
   candidate; a candidate is an avatar URL (short, with a size suffix, or
   with a long run of digits) or a near miss of the pattern *)
Fill(n) == [i \in 1..n |-> "x"]
Candidates ==
    { <<"h", "d", "p">>, <<"h", "d", "j">>, <<"h", "d", "p", "!", "d">>,
      <<"h", "d", "d", "d", "d", "d", "p">>, <<"h", "d", "d", "d", "d", "d", "d", "p">>,
      <<"h", "d">>, <<"h", "p">>, <<"h", "d", "j", "!">> }
Pages ==
    { pg \in { Fill(a) \o c1 \o Fill(b) \o c2 :
                 a \in 0..MaxFill, b \in 0..MaxFill,
                 c1 \in Candidates \cup {NoText}, c2 \in Candidates \cup {NoText} } :
        Len(pg) <= MaxPage }

(***************************************************************************)
(* Cache locations.  The id of a request is the query parameter as it was  *)
(* sent, any string; it is written here as the sequence of its parts       *)
(* between slashes.  A location is what pathlib makes of                   *)
(* cache_dir / f"{item_id}{extension}": the directory, the file name       *)
(* without extension, and the extension; parts that are "." are dropped.   *)
(***************************************************************************)
avatar_cache_dir == <<"cache", "avatars">>

(* the ids requested in the model: "A", "B" and "./A" *)
RawIds == { <<"A">>, <<"B">>, <<".", "A">> }
RECURSIVE IdString(_)
IdString(rid) ==
    IF Len(rid) = 1 THEN rid[1] ELSE rid[1] \o "/" \o IdString(Tail(rid))

(* cache_service.get_cache_path (and the same expression in
   avatar_service.py, lines 199, 206 and 237) *)
get_cache_path(cache_dir, item_id, extension) ==
    [dir |-> cache_dir \o SelectSeq(SubSeq(item_id, 1, Len(item_id) - 1),
                                    LAMBDA part : part # "."),
     name |-> item_id[Len(item_id)], ext |-> extension]

(* the entry of the avatar directory where the files of a requested id are:
   the directory is keyed by the file names without their extension *)
avatar_files_key(rid) ==
    CHOOSE i \in Ids :
        \A x \in AvatarNames :
            get_cache_path(avatar_cache_dir, rid, x) = get_cache_path(avatar_cache_dir, <<i>>, x)

(***************************************************************************)
(* Backend avatar proxy (backend/main.py, get_avatar).  The cache          *)
(* directory holds, for a photo URL, the image at <md5 of the URL><ext>    *)
(* and the fail marker at <md5 of the URL>.failed; the model keys both by  *)
(* the URL.  The TTL of the fail marker is a setting (backend/config.py),  *)
(* run here at a small scale.                                              *)
(***************************************************************************)
AvatarFailCacheTtl == 3
CacheTtlSeconds == 3

avatar_fail_cache_ttl == AvatarFailCacheTtl
cache_ttl_seconds == CacheTtlSeconds

PhotoUrls == {"u", "v"}
JsonPaths == {"p", "q"}

(* what the remote answers to http_client.get(photo_url): "ok" (200 with an
   image), "status" (another status), "error" (httpx.RequestError) *)
Remotes ==
    { [kind |-> "ok", image |-> AvatarBytes(DEFAULT_AVATAR_SIZE + 1, 1)],
      [kind |-> "status", image |-> NoImage], [kind |-> "error", image |-> NoImage] }

(* the backend's state before anything was cached: no image and no fail
   marker for any URL, no timestamp and no loaded data for any JSON path *)
NoBackend ==
    [files |-> [u \in PhotoUrls |-> [image |-> NoFile, failed |-> NoFile]],
     cache_timestamp |-> [p \in JsonPaths |-> [set |-> FALSE, at |-> 0]],
     lru |-> [p \in JsonPaths |-> [cached |-> FALSE, read_at |-> 0]]]

(* variant of is_avatar_fetch_failed: the marker expires when its age
   reaches the TTL *)
is_avatar_fetch_failed_at_ttl(marker, t) ==
    IF ~marker.exists THEN [failed |-> FALSE, marker |-> marker]
    ELSE IF t - marker.mtime >= avatar_fail_cache_ttl
    THEN [failed |-> FALSE, marker |-> NoFile]
    ELSE [failed |-> TRUE, marker |-> marker]

(* main.is_avatar_fetch_failed: whether the fetch failed within the TTL, and
   the marker afterwards (an expired marker is unlinked) *)
is_avatar_fetch_failed(marker, t) ==
    IF ~marker.exists THEN [failed |-> FALSE, marker |-> marker]
    ELSE IF t - marker.mtime > avatar_fail_cache_ttl
    THEN [failed |-> FALSE, marker |-> NoFile]
    ELSE [failed |-> TRUE, marker |-> marker]

(* main.mark_avatar_fetch_failed: fail_marker.touch() *)
mark_avatar_fetch_failed(marker, t) == File(NoContent, t)

ProxyResult(f, st, img, hit, rem) ==
    [files |-> f, status |-> st, image |-> img, hit |-> hit, remote |-> rem]

(* main.get_avatar on the files of one photo URL; remote counts the requests
   made to the remote *)
get_avatar(files, t, remote) ==
    IF files.image.exists
    THEN ProxyResult(files, 200, files.image.content, TRUE, 0)
    ELSE LET m == is_avatar_fetch_failed(files.failed, t) IN
    IF m.failed
    THEN ProxyResult([files EXCEPT !.failed = m.marker], 404, NoImage, FALSE, 0)
    ELSE CASE remote.kind = "ok" ->
                ProxyResult([image |-> File(remote.image, t), failed |-> m.marker],
                            200, remote.image, FALSE, 1)
           [] remote.kind = "status" ->
                ProxyResult([files EXCEPT !.failed = mark_avatar_fetch_failed(m.marker, t)],
                            404, NoImage, FALSE, 1)
           [] OTHER ->
                ProxyResult([files EXCEPT !.failed = mark_avatar_fetch_failed(m.marker, t)],
                            502, NoImage, FALSE, 1)

(***************************************************************************)
(* Backend in-memory JSON cache (backend/main.py, load_json_file).         *)
(* cache_timestamp is the dict _cache_timestamp, by path (the key is       *)
(* "load_json:" and the path); lru is the lru_cache of _load_json_file:    *)
(* whether the data of a path is held, and when it was read from disk.     *)
(***************************************************************************)
(* main.is_cache_valid of the backend, on the timestamps and a path *)
is_cache_valid_key(cache_timestamp, path, t) ==
    IF ~cache_timestamp[path].set THEN FALSE
    ELSE (t - cache_timestamp[path].at) < cache_ttl_seconds

(* main.load_json_file at time t: the backend afterwards, whether the data
   came from memory, and when the data returned was read from disk *)
load_json_file(b, t, path) ==
    LET cleared == IF is_cache_valid_key(b.cache_timestamp, path, t) THEN b.lru
                   ELSE [p \in JsonPaths |-> [cached |-> FALSE, read_at |-> 0]]
        loaded  == IF cleared[path].cached THEN cleared
                   ELSE [cleared EXCEPT ![path] = [cached |-> TRUE, read_at |-> t]]
    IN  [backend |-> [b EXCEPT !.cache_timestamp[path] = [set |-> TRUE, at |-> t],
                               !.lru = loaded],
         hit |-> cleared[path].cached,
         read_at |-> loaded[path].read_at]

(***************************************************************************)
(* What a request returned and did.                                        *)
(***************************************************************************)
NoCall ==
    [op |-> "none", id |-> "", force |-> FALSE, fmt |-> "", prior |-> "", status |-> 0,
     json |-> EmptyDict, image |-> NoImage, ctype |-> "", hit |-> FALSE,
     upstream |-> 0, attempts |-> 0, writes |-> 0, written |-> FALSE,
     scrapes |-> 0, downloads |-> 0, refreshes |-> 0, rereads |-> 0, fetches |-> 0,
     files_deleted |-> 0]

(***************************************************************************)
(* Initial state: the avatar and email directories are empty; the detail   *)
(* directory may hold files of an earlier run for the served ids: a        *)
(* truncated file, or a record of the format that carries "raw_response"   *)
(* (with or without an email path in it).                                  *)
(***************************************************************************)
RawDict(e) == [has_raw |-> TRUE, email |-> e, name |-> 1, log_id |-> 1, enriched |-> TRUE]
EarlierDetailFiles ==
    { NoFile, File(TruncatedText, 0), File(JsonDump(RawDict("/magic?e")), 0),
      File(JsonDump(RawDict("")), 0) }

(* the detail requests that may be in progress at once, and where each is:
   "idle" (not made), "fetching" (the cache check was a miss and the handler
   awaits fetch_aminer_web_api) or "done" (answered); raced says that the
   request, while it awaited, shared the wait with another request for the
   same id, and order is the position of its answer among the answers *)
Slots == {1, 2}
Idle ==
    [stage |-> "idle", id |-> "", force |-> FALSE, raced |-> FALSE, order |-> 0,
     status |-> 0, json |-> EmptyDict, hit |-> FALSE, upstream |-> 0, writes |-> 0,
     written |-> FALSE, finished |-> 0]

Families == {"aminer", "avatar"}
ServedIds == {"A"}

Init ==
    /\ now = 0
    /\ family \in Families
    /\ detail \in [Ids -> EarlierDetailFiles]
    /\ \A i \in Ids \ ServedIds : detail[i] = NoFile
    /\ family = "avatar" => \A i \in Ids : detail[i] = NoFile
    /\ avatar = [i \in Ids |-> [x \in AvatarNames |-> NoFile]]
    /\ email = [i \in Ids |-> [x \in EmailNames |-> NoFile]]
    /\ last = NoCall
    /\ inflight = [k \in Slots |-> Idle]
    /\ scan = NoScan
    /\ backend = NoBackend

(* time passes between requests *)
Tick ==
    /\ now + retry_delay <= MaxNow
    /\ now' = now + retry_delay
    /\ UNCHANGED <<detail, avatar, email, last, family, inflight, scan, backend>>

(* GET /aminer/scholar/detail with the three headers present *)
GetScholarDetail(id, force_refresh, os, uuid, w) ==
    /\ family = "aminer"
    /\ now <= MaxNow
    /\ \E r \in {get_scholar_detail(detail[id], now, force_refresh, os, uuid, w)} :
           /\ detail' = [detail EXCEPT ![id] = r.file]
           /\ now' = r.now
           /\ last' = [NoCall EXCEPT !.op = "detail", !.id = id, !.force = force_refresh,
                          !.prior = DetailState(detail[id], now),
                          !.status = r.status, !.json = r.json, !.hit = r.hit,
                          !.upstream = r.upstream, !.attempts = r.attempts,
                          !.writes = r.writes, !.written = r.written]
    /\ UNCHANGED <<avatar, email, family, inflight, scan, backend>>

(* GET /aminer/scholar/avatar *)
GetScholarAvatar(id, force_refresh, sc, dl, w) ==
    /\ family = "avatar"
    /\ now <= MaxNow
    /\ \E r \in {get_scholar_avatar(avatar[id], now, force_refresh, sc, dl, w)} :
           /\ avatar' = [avatar EXCEPT ![id] = r.dir]
           /\ last' = [NoCall EXCEPT !.op = "avatar", !.id = id, !.force = force_refresh,
                          !.status = r.status, !.image = r.image, !.ctype = r.ctype,
                          !.hit = r.hit, !.scrapes = r.scrapes, !.downloads = r.downloads,
                          !.writes = r.writes, !.written = r.written]
    /\ UNCHANGED <<now, detail, email, family, inflight, scan, backend>>

(* the download and the fate of the cache write are inputs of a call only when
   the call reaches them *)
ReachesDownload(sc, dl, w) ==
    /\ sc.kind = "found" \/ dl = NoDownload
    /\ sc.kind = "found" => dl # NoDownload
    /\ \/ dl.kind = "ok" /\ dl.image.len # DEFAULT_AVATAR_SIZE
       \/ w = "ok" /\ dl.ctype \in {"", "image/png"}

(* GET /aminer/scholar/email with the three headers present and a valid format *)
GetScholarEmailImage(id, force_refresh, output_format, os, uuid, wd, fo, we) ==
    /\ family = "aminer"
    /\ now <= MaxNow
    /\ \E r \in {get_scholar_email_image(detail[id], email[id], now, force_refresh,
                                          output_format, os, uuid, wd, fo, we)} :
           /\ detail' = [detail EXCEPT ![id] = r.file]
           /\ email' = [email EXCEPT ![id] = r.dir]
           /\ now' = r.now
           /\ last' = [NoCall EXCEPT !.op = "email", !.id = id, !.force = force_refresh,
                          !.fmt = output_format, !.prior = DetailState(detail[id], now),
                          !.status = r.status, !.image = r.image,
                          !.ctype = r.ctype, !.hit = r.hit, !.upstream = r.upstream,
                          !.attempts = r.attempts, !.refreshes = r.refreshes,
                          !.rereads = r.rereads, !.fetches = r.fetches,
                          !.writes = r.writes, !.written = r.written]
    /\ UNCHANGED <<avatar, family, inflight, scan, backend>>

(* the generated log id and the fate of the cache write are inputs of a call
   only when the call reaches them *)
Reaches(os, uuid, w) ==
    \/ fetch_aminer_web_api(os).status = 200 /\ fetch_aminer_web_api(os).payload.kind = "found"
    \/ uuid = 1 /\ w = "ok"

(* the inputs of an email request: the detail refresh has inputs only for a
   record that will be refreshed, the image fetch only for a record that
   carries an email path *)
CanonicalAttempts == <<[net |-> "transport", payload |-> NoPayload],
                       [net |-> "transport", payload |-> NoPayload]>>
RefreshInputs(id) ==
    IF read_json_cache(detail[id]).ok /\ ~read_json_cache(detail[id]).value.has_raw
    THEN { x \in AttemptSeqs \X LogIds \X {"ok", "fail"} : Reaches(x[1], x[2], x[3]) }
    ELSE { <<CanonicalAttempts, 1, "ok">> }
FetchInputs(id) ==
    IF email_path_of(read_json_cache(detail[id])) # ""
    THEN { x \in EmailFetches \X {"ok", "fail"} : x[1].kind = "ok" \/ x[2] = "ok" }
    ELSE { <<NoFetch, "ok">> }
EmailInputs(id) == RefreshInputs(id) \X FetchInputs(id)

(* GET /aminer/scholar/detail without one of the three headers *)
RejectedDetailRequest(id, h, force_refresh) ==
    /\ family = "aminer"
    /\ now <= MaxNow
    /\ validate_required_headers(h) # 200
    /\ \E r \in {get_aminer_scholar_detail_endpoint(h, detail[id], now, force_refresh,
                                                     CanonicalAttempts, 1, "ok")} :
           /\ detail' = [detail EXCEPT ![id] = r.file]
           /\ now' = r.now
           /\ last' = [NoCall EXCEPT !.op = "detail", !.id = id,
                          !.status = r.status, !.json = r.json, !.hit = r.hit,
                          !.upstream = r.upstream, !.attempts = r.attempts,
                          !.writes = r.writes, !.written = r.written]
    /\ UNCHANGED <<avatar, email, family, inflight, scan, backend>>

(* GET /aminer/scholar/email without one of the three headers, or with a
   format that is not png, jpg or jpeg *)
RejectedEmailRequest(id, h, format, force_refresh) ==
    /\ family = "aminer"
    /\ now <= MaxNow
    /\ validate_required_headers(h) # 200 \/ validate_format(format) # 200
    /\ \E r \in {get_scholar_email_endpoint(h, format, detail[id], email[id], now,
                                             force_refresh, CanonicalAttempts, 1, "ok",
                                             NoFetch, "ok")} :
           /\ detail' = [detail EXCEPT ![id] = r.file]
           /\ email' = [email EXCEPT ![id] = r.dir]
           /\ now' = r.now
           /\ last' = [NoCall EXCEPT !.op = "email", !.id = id,
                          !.status = r.status, !.image = r.image,
                          !.ctype = r.ctype, !.hit = r.hit, !.upstream = r.upstream,
                          !.attempts = r.attempts, !.refreshes = r.refreshes,
                          !.rereads = r.rereads, !.fetches = r.fetches,
                          !.writes = r.writes, !.written = r.written]
    /\ UNCHANGED <<avatar, family, inflight, scan, backend>>

(* POST /aminer/cache/clear *)
ClearCache ==
    /\ family = "aminer"
    /\ \E c \in {clear_cache_directory(detail)} :
           /\ detail' = c.dir
           /\ last' = [NoCall EXCEPT !.op = "clear", !.status = 200,
                          !.files_deleted = c.count]
    /\ UNCHANGED <<now, avatar, email, family, inflight, scan, backend>>

(* an overlapping GET /aminer/scholar/detail, up to its await: the cache check
   of lines 275-297; a hit is answered at once *)
StartDetail(k, id, force_refresh) ==
    /\ family = "aminer"
    /\ now <= MaxNow
    /\ inflight[k].stage = "idle"
    /\ IF detail_cache_hit(detail[id], now, force_refresh)
       THEN \E r \in {get_scholar_detail(detail[id], now, force_refresh,
                                          CanonicalAttempts, 1, "ok")} :
               inflight' = [inflight EXCEPT ![k] =
                   [Idle EXCEPT !.stage = "done", !.id = id, !.force = force_refresh,
                       !.order = 1 + Cardinality({ j \in Slots : inflight[j].stage = "done" }),
                       !.status = r.status, !.json = r.json, !.hit = r.hit,
                       !.finished = now]]
       ELSE inflight' = [j \in Slots |->
               IF j = k
               THEN [Idle EXCEPT !.stage = "fetching", !.id = id, !.force = force_refresh,
                        !.raced = \E i \in Slots \ {k} :
                                     inflight[i].stage = "fetching" /\ inflight[i].id = id]
               ELSE IF inflight[j].stage = "fetching" /\ inflight[j].id = id
               THEN [inflight[j] EXCEPT !.raced = TRUE]
               ELSE inflight[j]]
    /\ UNCHANGED <<now, detail, avatar, email, last, family, scan, backend>>

(* the same request from the answer of fetch_aminer_web_api on: lines 301-335,
   which run without another await; they are the part of get_scholar_detail
   that a request whose cache check was skipped runs as well *)
FinishDetail(k, os, uuid, w) ==
    /\ family = "aminer"
    /\ now <= MaxNow
    /\ inflight[k].stage = "fetching"
    /\ \E r \in {get_scholar_detail(detail[inflight[k].id], now, TRUE, os, uuid, w)} :
           /\ detail' = [detail EXCEPT ![inflight[k].id] = r.file]
           /\ now' = r.now
           /\ inflight' = [inflight EXCEPT ![k] =
                  [@ EXCEPT !.stage = "done",
                      !.order = 1 + Cardinality({ j \in Slots : inflight[j].stage = "done" }),
                      !.status = r.status, !.json = r.json, !.hit = r.hit,
                      !.upstream = r.upstream, !.writes = r.writes,
                      !.written = r.written, !.finished = r.now]]
           /\ last' = [NoCall EXCEPT !.op = "detail", !.id = inflight[k].id,
                          !.force = inflight[k].force,
                          !.status = r.status, !.json = r.json, !.hit = r.hit,
                          !.upstream = r.upstream, !.attempts = r.attempts,
                          !.writes = r.writes, !.written = r.written]
    /\ UNCHANGED <<avatar, email, family, scan, backend>>

(* one chunk of n characters arrives (lines 65-79): it is appended to the
   buffer; a buffer longer than buffer_size is searched, and the URL found is
   returned or the buffer cut to its last keep_chars characters *)
ReceiveChunk(n) ==
    /\ family = "scan"
    /\ scan.stage = "streaming"
    /\ scan.pos + n <= Len(scan.page)
    /\ \E buffer \in {scan.buffer \o SubSeq(scan.page, scan.pos + 1, scan.pos + n)} :
          scan' = IF Len(buffer) > buffer_size
                  THEN IF re_search(buffer) # NoText
                       THEN [scan EXCEPT !.pos = scan.pos + n, !.buffer = buffer,
                                         !.stage = "returned",
                                         !.url = search_buffer(buffer)]
                       ELSE [scan EXCEPT !.pos = scan.pos + n,
                                         !.buffer = last_chars(buffer, keep_chars),
                                         !.cut = scan.pos + n]
                  ELSE [scan EXCEPT !.pos = scan.pos + n, !.buffer = buffer]
    /\ UNCHANGED <<now, detail, avatar, email, last, family, inflight, backend>>

(* the stream ends (lines 81-91): the final check of what the buffer holds *)
EndOfStream ==
    /\ family = "scan"
    /\ scan.stage = "streaming"
    /\ scan.pos = Len(scan.page)
    /\ scan' = [scan EXCEPT !.stage = "returned",
                            !.url = IF scan.buffer # NoText
                                    THEN search_buffer(scan.buffer) ELSE NoText]
    /\ UNCHANGED <<now, detail, avatar, email, last, family, inflight, backend>>

(* GET /aminer/scholar/avatar with the id as it was sent: the resolver works
   on the files that get_cache_path gives for that id *)
GetScholarAvatarAt(rid, force_refresh, sc, dl, w) ==
    /\ family = "avatar"
    /\ now <= MaxNow
    /\ \E r \in {get_scholar_avatar(avatar[avatar_files_key(rid)], now, force_refresh,
                                     sc, dl, w)} :
           /\ avatar' = [avatar EXCEPT ![avatar_files_key(rid)] = r.dir]
           /\ last' = [NoCall EXCEPT !.op = "avatar", !.id = IdString(rid),
                          !.force = force_refresh,
                          !.status = r.status, !.image = r.image, !.ctype = r.ctype,
                          !.hit = r.hit, !.scrapes = r.scrapes, !.downloads = r.downloads,
                          !.writes = r.writes, !.written = r.written]
    /\ UNCHANGED <<now, detail, email, family, inflight, scan, backend>>

(* a second passes on the backend's clock *)
Second ==
    /\ family \in {"proxy", "json"}
    /\ now < MaxNow
    /\ now' = now + 1
    /\ UNCHANGED <<detail, avatar, email, last, family, inflight, scan, backend>>

(* GET /api/avatar/{aminer_id} of the backend, for the scholar whose photo
   URL is url *)
GetAvatar(url, remote) ==
    /\ family = "proxy"
    /\ \E r \in {get_avatar(backend.files[url], now, remote)} :
           /\ backend' = [backend EXCEPT !.files[url] = r.files]
           /\ last' = [NoCall EXCEPT !.op = "proxy", !.id = url, !.status = r.status,
                          !.image = r.image, !.hit = r.hit, !.downloads = r.remote]
    /\ UNCHANGED <<now, detail, avatar, email, family, inflight, scan>>

(* a request of the backend that loads the JSON file at path *)
LoadJsonFile(path) ==
    /\ family = "json"
    /\ \E r \in {load_json_file(backend, now, path)} :
           /\ backend' = r.backend
           /\ last' = [NoCall EXCEPT !.op = "load_json", !.id = path, !.status = 200,
                          !.hit = r.hit]
    /\ UNCHANGED <<now, detail, avatar, email, family, inflight, scan>>

(* the requests of each kind, under every input they can meet; a rejected
   email request is drawn with a format that is valid and one that is not *)
DetailRequests ==
    \E id \in ServedIds, force_refresh \in Forces, os \in AttemptSeqs,
       uuid \in LogIds, w \in {"ok", "fail"} :
       Reaches(os, uuid, w) /\ GetScholarDetail(id, force_refresh, os, uuid, w)
AvatarRequests ==
    \E id \in ServedIds, force_refresh \in Forces, sc \in Scrapes,
       dl \in Downloads \cup {NoDownload}, w \in {"ok", "fail"} :
       ReachesDownload(sc, dl, w) /\ GetScholarAvatar(id, force_refresh, sc, dl, w)
EmailRequests ==
    \E id \in ServedIds, force_refresh \in Forces, output_format \in OutputFormats :
       \E x \in EmailInputs(id) :
          GetScholarEmailImage(id, force_refresh, output_format, x[1][1], x[1][2],
                               x[1][3], x[2][1], x[2][2])
RejectedDetailRequests ==
    \E id \in ServedIds, h \in Headers, force_refresh \in Forces :
       RejectedDetailRequest(id, h, force_refresh)
RejectedEmailRequests ==
    \E id \in ServedIds, h \in Headers, format \in {"png", "gif"}, force_refresh \in Forces :
       RejectedEmailRequest(id, h, format, force_refresh)

Next ==
    \/ Tick
    \/ DetailRequests
    \/ AvatarRequests
    \/ EmailRequests
    \/ RejectedDetailRequests
    \/ RejectedEmailRequests
    \/ ClearCache

Spec == Init /\ [][Next]_vars

(* The service with requests to the detail and email endpoints only, and with
   requests to the avatar endpoint only: the two halves of Spec. *)
InitAminer == Init /\ family = "aminer"
NextAminer ==
    \/ Tick
    \/ DetailRequests
    \/ EmailRequests
    \/ RejectedDetailRequests
    \/ RejectedEmailRequests
SpecAminer == InitAminer /\ [][NextAminer]_vars

InitAvatar == Init /\ family = "avatar"
NextAvatar == Tick \/ AvatarRequests
SpecAvatar == InitAvatar /\ [][NextAvatar]_vars

(* The service with the cache-clear endpoint next to the detail and email
   endpoints, under requests that the AMiner API answers with a person and
   whose cache writes succeed (the requests that fill the namespaces; the
   image fetch of an email request may also fail).  The detail directory may
   hold files of an earlier run for the id that is not requested as well,
   which stay until the directory is cleared. *)
InitClear ==
    /\ now = 0
    /\ family = "aminer"
    /\ detail \in [Ids -> EarlierDetailFiles]
    /\ detail["B"] \in {NoFile, File(JsonDump(RawDict("")), 0)}
    /\ avatar = [i \in Ids |-> [x \in AvatarNames |-> NoFile]]
    /\ email = [i \in Ids |-> [x \in EmailNames |-> NoFile]]
    /\ last = NoCall
    /\ inflight = [k \in Slots |-> Idle]
    /\ scan = NoScan
    /\ backend = NoBackend
Answered(os) == os[1].net = "ok" /\ os[1].payload.kind = "found"
FillingDetailRequests ==
    \E id \in ServedIds, force_refresh \in Forces, os \in AttemptSeqs, uuid \in LogIds :
       Answered(os) /\ GetScholarDetail(id, force_refresh, os, uuid, "ok")
FillingEmailRequests ==
    \E id \in ServedIds, force_refresh \in Forces, output_format \in OutputFormats :
       \E x \in EmailInputs(id) :
          /\ Answered(x[1][1]) \/ x[1][1] = CanonicalAttempts
          /\ x[1][3] = "ok" /\ x[2][2] = "ok"
          /\ x[2][1].kind = "ok" => x[2][1].image.bg = "transparent"
          /\ GetScholarEmailImage(id, force_refresh, output_format, x[1][1], x[1][2],
                                  x[1][3], x[2][1], x[2][2])
NextClear ==
    \/ Tick
    \/ FillingDetailRequests
    \/ FillingEmailRequests
    \/ ClearCache
SpecClear == InitClear /\ [][NextClear]_vars

(* The service under the avatar and email requests that create, meet and
   pass markers and positive records: the scrape finds a URL, finds none or
   times out; the download returns an image, a default-sized one or times
   out; the image fetch returns an image or fails; the cache writes succeed. *)
MarkingAvatarRequests ==
    \E id \in ServedIds, force_refresh \in Forces, sc \in Scrapes,
       dl \in Downloads \cup {NoDownload} :
       /\ sc.kind \in {"found", "absent", "timeout"} /\ sc.url \in {NoUrl, ".png"}
       /\ dl.kind \in {"none", "ok", "timeout"}
       /\ dl.kind = "ok" => dl.ctype = "image/png" /\ dl.image.pic = 1
       /\ ReachesDownload(sc, dl, "ok")
       /\ GetScholarAvatar(id, force_refresh, sc, dl, "ok")
NextMarkers ==
    \/ Tick
    \/ MarkingAvatarRequests
    \/ FillingEmailRequests
SpecMarkers == Init /\ [][NextMarkers]_vars

(* The service under requests of the three resolvers whose upstream
   resolution succeeds (or, for the avatar, finds no URL) and whose cache
   write succeeds or fails. *)
WritingDetailRequests ==
    \E id \in ServedIds, force_refresh \in Forces, os \in AttemptSeqs, uuid \in LogIds,
       w \in {"ok", "fail"} :
       Answered(os) /\ GetScholarDetail(id, force_refresh, os, uuid, w)
WritingAvatarRequests ==
    \E id \in ServedIds, force_refresh \in Forces, sc \in Scrapes,
       dl \in Downloads \cup {NoDownload}, w \in {"ok", "fail"} :
       /\ sc.kind \in {"found", "absent"} /\ sc.url \in {NoUrl, ".png"}
       /\ dl.kind \in {"none", "ok"}
       /\ dl.kind = "ok" => dl.ctype = "image/png" /\ dl.image.len # DEFAULT_AVATAR_SIZE
       /\ ReachesDownload(sc, dl, w)
       /\ GetScholarAvatar(id, force_refresh, sc, dl, w)
WritingEmailRequests ==
    \E id \in ServedIds, force_refresh \in Forces :
       \E x \in EmailInputs(id) :
          /\ Answered(x[1][1]) \/ x[1][1] = CanonicalAttempts
          /\ x[1][3] = "ok"
          /\ x[2][1].kind = "ok" => x[2][1].image.bg = "transparent"
          /\ GetScholarEmailImage(id, force_refresh, "PNG", x[1][1], x[1][2],
                                  x[1][3], x[2][1], x[2][2])
NextWrites ==
    \/ Tick
    \/ WritingDetailRequests
    \/ WritingAvatarRequests
    \/ WritingEmailRequests
SpecWrites == Init /\ [][NextWrites]_vars

(* The service under detail requests that may overlap; the upstream answers a
   request with a person, with 'not found', or fails at both attempts. *)
StartDetails ==
    \E k \in Slots, id \in ServedIds, force_refresh \in Forces :
       StartDetail(k, id, force_refresh)
FinishDetails ==
    \E k \in Slots : inflight[k].stage = "fetching" /\
       \E os \in AttemptSeqs, uuid \in LogIds, w \in {"ok", "fail"} :
          /\ os[2] = os[1]
          /\ os[1].net = "transport" \/ os[1].payload.kind \in {"found", "notfound"}
          /\ Reaches(os, uuid, w)
          /\ FinishDetail(k, os, uuid, w)
NextRace ==
    \/ Tick
    \/ StartDetails
    \/ FinishDetails
SpecRace == InitAminer /\ [][NextRace]_vars

(* The scan of one scraped page, delivered in chunks of every size. *)
InitScan ==
    /\ now = 0
    /\ family = "scan"
    /\ detail = [i \in Ids |-> NoFile]
    /\ avatar = [i \in Ids |-> [x \in AvatarNames |-> NoFile]]
    /\ email = [i \in Ids |-> [x \in EmailNames |-> NoFile]]
    /\ last = NoCall
    /\ inflight = [k \in Slots |-> Idle]
    /\ scan \in { [NoScan EXCEPT !.page = pg, !.stage = "streaming"] : pg \in Pages }
    /\ backend = NoBackend
ReceiveChunks == \E n \in 1..MaxPage : ReceiveChunk(n)
NextScan ==
    \/ ReceiveChunks
    \/ EndOfStream
SpecScan == InitScan /\ [][NextScan]_vars

(* The avatar endpoint under requests whose id is any string, with the upstream
   outcomes that create markers and positive records. *)
AvatarRequestsAt ==
    \E rid \in RawIds, force_refresh \in Forces, sc \in Scrapes,
       dl \in Downloads \cup {NoDownload} :
       /\ sc.kind \in {"found", "absent", "timeout"} /\ sc.url \in {NoUrl, ".png"}
       /\ dl.kind \in {"none", "ok", "timeout"}
       /\ dl.kind = "ok" => dl.ctype = "image/png" /\ dl.image.pic = 1
       /\ ReachesDownload(sc, dl, "ok")
       /\ GetScholarAvatarAt(rid, force_refresh, sc, dl, "ok")
NextPaths ==
    \/ Tick
    \/ AvatarRequestsAt
SpecPaths == InitAvatar /\ [][NextPaths]_vars

(* The backend's avatar proxy under requests for two photo URLs. *)
InitBackend ==
    /\ now = 0
    /\ detail = [i \in Ids |-> NoFile]
    /\ avatar = [i \in Ids |-> [x \in AvatarNames |-> NoFile]]
    /\ email = [i \in Ids |-> [x \in EmailNames |-> NoFile]]
    /\ last = NoCall
    /\ inflight = [k \in Slots |-> Idle]
    /\ scan = NoScan
    /\ backend = NoBackend
InitProxy == InitBackend /\ family = "proxy"
GetAvatars == \E url \in PhotoUrls, remote \in Remotes : GetAvatar(url, remote)
NextProxy ==
    \/ Second
    \/ GetAvatars
SpecProxy == InitProxy /\ [][NextProxy]_vars

(* The backend's JSON cache under loads of two paths. *)
InitJson == InitBackend /\ family = "json"
LoadJsonFiles == \E path \in JsonPaths : LoadJsonFile(path)
NextJson ==
    \/ Second
    \/ LoadJsonFiles
SpecJson == InitJson /\ [][NextJson]_vars

(***************************************************************************)
(* The inputs a request can meet, for the properties below: each property  *)
(* applies a resolver to the files of a reachable state under every input. *)
(***************************************************************************)
Writes == {"ok", "fail"}
DetailInputs == { x \in AttemptSeqs \X LogIds \X Writes : Reaches(x[1], x[2], x[3]) }
AvatarInputs ==
    { x \in Scrapes \X (Downloads \cup {NoDownload}) \X Writes :
        ReachesDownload(x[1], x[2], x[3]) }
NoUrlInputs == { x \in AvatarInputs : x[1].kind # "found" }
Times == { k * retry_delay : k \in 0..(MaxNow \div retry_delay + 1) }
LaterTimes(t) == { u \in Times : u >= t }
AllFailed(os) == \A k \in 1..max_attempts : os[k].net # "ok"

(* C1: idempotent cache hit of the detail resolver: starting with no detail
   record for an id, a call with force_refresh=false that succeeds and writes
   the record makes one upstream call, and a second call with
   force_refresh=false made while the record's age is below aminer_cache_ttl
   returns the same response (log_id included) without any upstream call,
   whatever the upstream would answer. *)
C1_IdempotentCacheHit ==
    \A id \in ServedIds : (family = "aminer" /\ ~detail[id].exists) =>
      \A x \in DetailInputs :
        \E r1 \in {get_scholar_detail(detail[id], now, FALSE, x[1], x[2], x[3])} :
          (r1.status = 200 /\ r1.written) =>
            /\ r1.upstream = 1
            /\ \A t2 \in LaterTimes(r1.now) : (t2 - r1.file.mtime < aminer_cache_ttl) =>
                 \A y \in DetailInputs :
                   \E r2 \in {get_scholar_detail(r1.file, t2, FALSE, y[1], y[2], y[3])} :
                      /\ r2.status = 200
                      /\ r2.json = r1.json
                      /\ r2.hit
                      /\ r2.upstream = 0 /\ r2.attempts = 0
                      /\ r1.upstream + r2.upstream = 1

(* a second non-forced call was answered from the record the resolver wrote *)
C1_Witness ==
    /\ last.op = "detail" /\ ~last.force /\ last.hit /\ last.status = 200
    /\ last.prior = "valid" /\ ~last.json.has_raw
    /\ read_json_cache(detail[last.id]).value = last.json

(* C2: force-refresh bypass of the detail resolver: for every id and every
   state of the detail record (absent, valid, expired, unreadable), a call
   with force_refresh=true does not answer from the cache and makes exactly
   one upstream call (one call of fetch_aminer_web_api, of one or two HTTP
   attempts). *)
C2_ForceRefreshBypass ==
    family = "aminer" => \A id \in ServedIds : \A x \in DetailInputs :
      \E r \in {get_scholar_detail(detail[id], now, TRUE, x[1], x[2], x[3])} :
         /\ ~r.hit
         /\ r.upstream = 1
         /\ r.attempts \in 1..max_attempts
         /\ r.status = 200 => r.json = convert_web_api_to_official_format(
                                          fetch_aminer_web_api(x[1]).payload, x[2]).value

(* a forced call on a valid record went upstream *)
C2_Witness ==
    /\ last.op = "detail" /\ last.force /\ last.prior = "valid"
    /\ ~last.hit /\ last.upstream = 1 /\ last.status = 200

(* C3: negative-cache short-circuit: while the avatar '.default' marker of an
   id exists, and while the email '.no_email' marker of an id is within its
   TTL, every call with force_refresh=false fails with 404, makes no network
   access (no scrape, no download, no detail refresh, no email-image fetch)
   and changes no cache file. *)
C3_NegativeCacheShortCircuit ==
    \A id \in ServedIds :
      /\ avatar[id][".default"].exists =>
           \A x \in AvatarInputs :
             \E r \in {get_scholar_avatar(avatar[id], now, FALSE, x[1], x[2], x[3])} :
                /\ r.status = 404
                /\ r.scrapes = 0 /\ r.downloads = 0 /\ r.writes = 0
                /\ r.dir = avatar[id]
      /\ is_cache_valid(email[id][".no_email"], email_cache_ttl, now) =>
           \A x \in EmailInputs(id), of \in OutputFormats :
             \E r \in {get_scholar_email_image(detail[id], email[id], now, FALSE, of,
                                                x[1][1], x[1][2], x[1][3], x[2][1], x[2][2])} :
                /\ r.status = 404
                /\ r.upstream = 0 /\ r.attempts = 0 /\ r.refreshes = 0 /\ r.fetches = 0
                /\ r.writes = 0
                /\ r.dir = email[id] /\ r.file = detail[id] /\ r.now = now

(* a non-forced call was refused from a marker *)
C3_Witness ==
    /\ last.hit /\ last.status = 404 /\ ~last.force
    /\ \/ last.op = "avatar" /\ avatar[last.id][".default"].exists
       \/ last.op = "email" /\ is_cache_valid(email[last.id][".no_email"], email_cache_ttl, now)

(* C4: no caching on a transient avatar failure: when the scrape fails
   (non-200, timeout, other error) or the download fails (HTTP status,
   timeout, other error), get_scholar_avatar raises 502 or 504 and leaves the
   avatar files of the id as they were; a later call with the same
   force_refresh scrapes again (checked for the later calls whose scrape
   finds no URL or fails). *)
C4_NoCachingOnTransientFailure ==
    family = "avatar" => \A id \in ServedIds : \A force_refresh \in Forces : \A x \in AvatarInputs :
      \E r \in {get_scholar_avatar(avatar[id], now, force_refresh, x[1], x[2], x[3])} :
        (\/ r.scrapes = 1 /\ x[1].kind \in {"http", "timeout", "error"}
         \/ r.downloads = 1 /\ x[2].kind \in {"timeout", "status", "error"}) =>
            /\ r.status \in {502, 504}
            /\ r.dir = avatar[id]
            /\ r.writes = 0
            /\ \A t2 \in LaterTimes(now) : \A y \in NoUrlInputs :
                  get_scholar_avatar(r.dir, t2, force_refresh, y[1], y[2], y[3]).scrapes = 1

(* a forced avatar call failed in the download and the record is still there *)
C4_Witness ==
    /\ last.op = "avatar" /\ last.status \in {502, 504}
    /\ last.scrapes = 1 /\ last.downloads = 1
    /\ \E x \in {".jpg", ".png"} : avatar[last.id][x].exists
    /\ ~avatar[last.id][".default"].exists

(* C5: nothing cached on upstream failure: when all attempts of the upstream
   call fail, get_scholar_detail raises 502 and the detail record of the id is
   what it was before the call, with force_refresh=true as well. *)
C5_NothingCachedOnUpstreamFailure ==
    family = "aminer" => \A id \in ServedIds : \A force_refresh \in Forces : \A x \in DetailInputs :
      \E r \in {get_scholar_detail(detail[id], now, force_refresh, x[1], x[2], x[3])} :
        (~r.hit /\ AllFailed(x[1])) =>
            /\ r.status = 502
            /\ r.attempts = max_attempts
            /\ r.writes = 0
            /\ r.file = detail[id]

(* a forced call failed upstream and the valid record is still there *)
C5_Witness ==
    /\ last.op = "detail" /\ last.status = 502 /\ last.attempts = max_attempts
    /\ last.force /\ last.prior = "valid"
    /\ read_json_cache(detail[last.id]).ok

(* C6 (as claimed): when the forced detail refresh that the email resolver
   triggers for a record without 'raw_response' fails with an upstream error
   (all attempts failed), the request creates no '.no_email' marker and
   deletes no cached email image of the id. *)
C6_HealingFailureNotCached ==
    [][ (/\ last' # last
         /\ last'.op = "email" /\ last'.refreshes = 1 /\ last'.rereads = 0
         /\ last'.attempts = max_attempts)
        => /\ email'[last'.id][".no_email"] = email[last'.id][".no_email"]
           /\ email'[last'.id][".png"] = email[last'.id][".png"] ]_vars

(* C7: default-avatar reclassification: when the URL is found and the
   downloaded avatar has exactly DEFAULT_AVATAR_SIZE bytes, get_scholar_avatar
   fails with 404, writes the '.default' marker and writes no image file; and
   no positive avatar record in the cache has DEFAULT_AVATAR_SIZE bytes. *)
C7_DefaultAvatarReclassified ==
    family = "avatar" => \A id \in ServedIds :
      /\ \A x \in {".jpg", ".jpeg", ".png"} :
            avatar[id][x].exists => avatar[id][x].content.len # DEFAULT_AVATAR_SIZE
      /\ \A force_refresh \in Forces : \A x \in AvatarInputs :
           \E r \in {get_scholar_avatar(avatar[id], now, force_refresh, x[1], x[2], x[3])} :
             (r.downloads = 1 /\ x[2].kind = "ok" /\ x[2].image.len = DEFAULT_AVATAR_SIZE) =>
                /\ r.status = 404
                /\ r.dir[".default"] = File(NoContent, now)
                /\ \A e \in {".jpg", ".jpeg", ".png"} : r.dir[e] = avatar[id][e]
                /\ r.writes = 0

(* a download of default size ended in 404 with the marker written *)
C7_Witness ==
    /\ last.op = "avatar" /\ last.status = 404 /\ last.downloads = 1
    /\ avatar[last.id][".default"] = File(NoContent, now)

(* C8: email dependency healing: when the cached detail record has no
   'raw_response', one call of get_scholar_email_image that gets past the
   marker check makes exactly one detail refresh, with force_refresh=true (one
   upstream call even on a valid record), and one re-read of the record when
   the refresh returns (none when it raises), never more; if the field is
   still absent after the re-read it writes the '.no_email' marker and fails
   with 404.  When the record has the field, no detail refresh is made. *)
C8_EmailDependencyHealing ==
    \A id \in ServedIds :
      (family = "aminer" /\ read_json_cache(detail[id]).ok) =>
        \A force_refresh \in Forces : \A x \in EmailInputs(id) : \A of \in OutputFormats :
          \E r \in {get_scholar_email_image(detail[id], email[id], now, force_refresh, of,
                                             x[1][1], x[1][2], x[1][3], x[2][1], x[2][2])} :
          \E dr \in {get_scholar_detail(detail[id], now, TRUE, x[1][1], x[1][2], x[1][3])} :
              \/ no_email_marker_hit(email[id], now, force_refresh)
              \/ /\ read_json_cache(detail[id]).value.has_raw
                 /\ r.refreshes = 0 /\ r.rereads = 0 /\ r.upstream = 0
                 /\ r.file = detail[id]
              \/ /\ ~read_json_cache(detail[id]).value.has_raw
                 /\ r.refreshes = 1 /\ r.upstream = 1
                 /\ r.rereads = (IF dr.status = 200 THEN 1 ELSE 0)
                 /\ r.file = dr.file
                 /\ (r.rereads = 1 /\ email_path_of(read_json_cache(r.file)) = "") =>
                       /\ r.status = 404
                       /\ r.dir[".no_email"] = File(NoContent, r.now)

(* a record without the field was refreshed once, read again, and the request
   ended in 404 with the marker *)
C8_Witness ==
    /\ last.op = "email" /\ last.refreshes = 1 /\ last.rereads = 1 /\ last.upstream = 1
    /\ last.prior = "valid" /\ last.status = 404
    /\ email[last.id][".no_email"] = File(NoContent, now)

(* C9: lazy expiry of detail records: when the detail record of an id is
   older than aminer_cache_ttl, get_scholar_detail with force_refresh=false
   makes one upstream call and, when that call succeeds, returns the newly
   normalized response (not the expired record) and, the write succeeding,
   replaces the whole record by it; a readable record younger than the TTL is
   answered from the cache without an upstream call. *)
C9_LazyExpiry ==
    family = "aminer" => \A id \in ServedIds : \A x \in DetailInputs :
      \E r \in {get_scholar_detail(detail[id], now, FALSE, x[1], x[2], x[3])} :
        /\ (read_json_cache(detail[id]).ok /\ now - detail[id].mtime >= aminer_cache_ttl) =>
             /\ ~r.hit /\ r.upstream = 1
             /\ r.status = 200 =>
                  /\ r.json = convert_web_api_to_official_format(
                                 fetch_aminer_web_api(x[1]).payload, x[2]).value
                  /\ r.writes = 1
                  /\ r.written => r.file = File(JsonDump(r.json), r.now)
        /\ (read_json_cache(detail[id]).ok /\ now - detail[id].mtime < aminer_cache_ttl) =>
             /\ r.hit /\ r.upstream = 0 /\ r.attempts = 0 /\ r.writes = 0
             /\ r.json = read_json_cache(detail[id]).value
             /\ r.file = detail[id]

(* a non-forced call on an expired record fetched and replaced it *)
C9_Witness ==
    /\ last.op = "detail" /\ ~last.force /\ last.prior = "expired"
    /\ last.status = 200 /\ last.upstream = 1 /\ last.written
    /\ detail[last.id] = File(JsonDump(last.json), now)

(* C10: detail misses are not negative-cached: when the upstream payload has
   succeed == false in its first data item, get_scholar_detail fails with 404
   without a cache write, the detail record is unchanged, and a later call
   with force_refresh=false that finds no valid record calls upstream again. *)
C10_DetailMissNotCached ==
    family = "aminer" => \A id \in ServedIds : \A force_refresh \in Forces : \A x \in DetailInputs :
      \E r \in {get_scholar_detail(detail[id], now, force_refresh, x[1], x[2], x[3])} :
        (r.upstream = 1 /\ fetch_aminer_web_api(x[1]).status = 200
           /\ fetch_aminer_web_api(x[1]).payload.kind = "notfound") =>
            /\ r.status = 404
            /\ r.writes = 0
            /\ r.file = detail[id]
            /\ \A t2 \in LaterTimes(r.now) : \A y \in DetailInputs :
                 DetailState(r.file, t2) # "valid" =>
                    get_scholar_detail(r.file, t2, FALSE, y[1], y[2], y[3]).upstream = 1

(* a call was answered 404 by the upstream signal and no record exists *)
C10_Witness ==
    /\ last.op = "detail" /\ last.status = 404 /\ last.upstream = 1 /\ last.writes = 0
    /\ last.prior = "absent" /\ ~detail[last.id].exists

(* C11: bounded retry: one upstream call (made here by a forced detail
   request) makes one or two HTTP attempts; it makes the second exactly when
   the first one failed, and then after one sleep of retry_delay seconds; a
   first attempt that succeeds is the only one; when both attempts fail the
   call ends with 502. *)
C11_BoundedRetry ==
    family = "aminer" => \A id \in ServedIds : \A x \in DetailInputs :
      \E r \in {get_scholar_detail(detail[id], now, TRUE, x[1], x[2], x[3])} :
         /\ r.upstream = 1
         /\ r.attempts \in {1, 2}
         /\ r.attempts = 2 <=> x[1][1].net # "ok"
         /\ r.now = IF r.attempts = 2 THEN now + retry_delay ELSE now
         /\ (x[1][1].net # "ok" /\ x[1][2].net # "ok") => r.status = 502

(* a detail request was answered 200 by the second attempt, after the delay *)
C11_Witness ==
    /\ last.op = "detail" /\ last.attempts = 2 /\ last.status = 200 /\ last.written
    /\ now >= retry_delay /\ detail[last.id].mtime = now

(* C12 (as claimed): only transient failures are retried: after a transport
   error of the first attempt a second attempt is made, but after a non-2xx
   answer of the provider no second attempt is made. *)
C12_OnlyTransientRetried ==
    family = "aminer" => \A id \in ServedIds : \A x \in DetailInputs :
      \E r \in {get_scholar_detail(detail[id], now, TRUE, x[1], x[2], x[3])} :
         /\ x[1][1].net = "transport" => r.attempts = 2
         /\ x[1][1].net = "status" => r.attempts = 1

(* C13: one cache write per successful resolution: a detail request calls
   write_json_cache at most once, and once exactly when it was not answered
   from the cache and its upstream call returned a body with a person in it;
   a request that needed the retry writes once, a cache hit writes nothing,
   and the record changes only in a request that writes. *)
C13_OneWritePerResolution ==
    family = "aminer" => \A id \in ServedIds : \A force_refresh \in Forces : \A x \in DetailInputs :
      \E r \in {get_scholar_detail(detail[id], now, force_refresh, x[1], x[2], x[3])} :
         /\ r.writes \in {0, 1}
         /\ r.writes = 1 <=> /\ ~detail_cache_hit(detail[id], now, force_refresh)
                             /\ \E k \in 1..max_attempts :
                                   /\ \A j \in 1..(k - 1) : x[1][j].net # "ok"
                                   /\ x[1][k].net = "ok"
                                   /\ x[1][k].payload.kind = "found"
         /\ (r.attempts = 2 /\ r.status = 200) => r.writes = 1
         /\ r.hit => r.writes = 0
         /\ r.file # detail[id] => r.writes = 1 /\ r.written

(* a request that needed the retry wrote the record once *)
C13_Witness ==
    /\ last.op = "detail" /\ last.attempts = 2 /\ last.status = 200
    /\ last.writes = 1 /\ last.written
    /\ detail[last.id] = File(JsonDump(last.json), now)

(* C14 (as claimed): avatar negative markers expire: once the '.default'
   marker of an id is as old as avatar_cache_ttl or older, a request with
   force_refresh=false is not refused from the marker but goes on to the
   discovery of the avatar URL. *)
C14_AvatarMarkerExpires ==
    family = "avatar" => \A id \in ServedIds :
      (avatar[id][".default"].exists /\ now - avatar[id][".default"].mtime >= avatar_cache_ttl) =>
         \A x \in AvatarInputs :
           \E r \in {get_scholar_avatar(avatar[id], now, FALSE, x[1], x[2], x[3])} :
              ~(r.hit /\ r.status = 404)

(* C14 (amended): avatar negative markers do not expire: a '.default' marker
   refuses every request with force_refresh=false for as long as the file
   exists, at any age (also at avatar_cache_ttl and beyond), without a scrape
   or a download; only a request with force_refresh=true goes past it, to the
   discovery. *)
C14_AvatarMarkerPermanent ==
    family = "avatar" => \A id \in ServedIds :
      avatar[id][".default"].exists =>
         \A x \in AvatarInputs :
           /\ \E r \in {get_scholar_avatar(avatar[id], now, FALSE, x[1], x[2], x[3])} :
                 /\ r.hit /\ r.status = 404
                 /\ r.scrapes = 0 /\ r.downloads = 0
                 /\ r.dir[".default"] = avatar[id][".default"]
           /\ \E r \in {get_scholar_avatar(avatar[id], now, TRUE, x[1], x[2], x[3])} :
                 /\ ~(r.hit /\ r.status = 404)
                 /\ r.scrapes = 1

(* a non-forced request was refused from a marker as old as the TTL *)
C14_Witness ==
    /\ last.op = "avatar" /\ ~last.force /\ last.hit /\ last.status = 404
    /\ avatar[last.id][".default"].exists
    /\ now - avatar[last.id][".default"].mtime >= avatar_cache_ttl

(* C15 (as claimed): email positive hit before the detail dependency: with a
   valid positive email record, no valid marker and force_refresh=false, the
   request returns the cached bytes in the requested format whatever the
   detail record is, without a network call and with the email files
   unchanged. *)
C15_PositiveHitBeforeDetail ==
    \A id \in ServedIds :
      (/\ family = "aminer"
       /\ is_cache_valid(email[id][".png"], email_cache_ttl, now)
       /\ ~is_cache_valid(email[id][".no_email"], email_cache_ttl, now)) =>
        \A x \in EmailInputs(id) : \A of \in OutputFormats :
          \E r \in {get_scholar_email_image(detail[id], email[id], now, FALSE, of,
                                             x[1][1], x[1][2], x[1][3], x[2][1], x[2][2])} :
             /\ r.status = 200
             /\ r.upstream = 0 /\ r.fetches = 0
             /\ r.dir = email[id]

(* C15 (amended): the email positive hit comes after the detail dependency:
   with a valid positive email record, no valid marker and force_refresh=false,
   the request returns the cached bytes (converted to JPEG when JPEG is asked,
   as they are otherwise) when the cached detail record is readable and has a
   non-empty email path in its 'raw_response'; it then makes no network call
   (no detail refresh, no image fetch) and leaves the detail record and the
   email files as they are. *)
C15_PositiveHitAfterDetail ==
    \A id \in ServedIds :
      (/\ family = "aminer"
       /\ is_cache_valid(email[id][".png"], email_cache_ttl, now)
       /\ ~is_cache_valid(email[id][".no_email"], email_cache_ttl, now)
       /\ email_path_of(read_json_cache(detail[id])) # "") =>
        \A x \in EmailInputs(id) : \A of \in OutputFormats :
          \E r \in {get_scholar_email_image(detail[id], email[id], now, FALSE, of,
                                             x[1][1], x[1][2], x[1][3], x[2][1], x[2][2])} :
             /\ r.status = 200 /\ r.hit
             /\ of = "PNG" => r.image = email[id][".png"].content /\ r.ctype = "image/png"
             /\ of = "JPEG" =>
                   r.image = convert_transparent_to_white_bg(email[id][".png"].content,
                                                             "JPEG").image
             /\ r.upstream = 0 /\ r.refreshes = 0 /\ r.fetches = 0 /\ r.writes = 0
             /\ r.dir = email[id] /\ r.file = detail[id]

(* a JPEG answer was derived from the cached record of an id whose detail
   record carries the email path *)
C15_Witness ==
    /\ last.op = "email" /\ ~last.force /\ last.hit /\ last.status = 200
    /\ last.fmt = "JPEG" /\ last.image.format = "JPEG" /\ last.ctype = "image/jpeg"
    /\ email[last.id][".png"].exists /\ email[last.id][".png"].content.format = "PNG"
    /\ email_path_of(read_json_cache(detail[last.id])) # ""

(* C16 (as claimed): email dependency error: when no detail record is cached
   for the id and no valid marker refuses the request first, the email request
   fails with 500, without a network call and without writing any file. *)
C16_DependencyErrorIs500 ==
    \A id \in ServedIds :
      (family = "aminer" /\ ~detail[id].exists) =>
        \A force_refresh \in Forces : \A x \in EmailInputs(id) : \A of \in OutputFormats :
          \E r \in {get_scholar_email_image(detail[id], email[id], now, force_refresh, of,
                                             x[1][1], x[1][2], x[1][3], x[2][1], x[2][2])} :
             ~no_email_marker_hit(email[id], now, force_refresh) =>
                /\ r.status = 500
                /\ r.upstream = 0 /\ r.fetches = 0 /\ r.writes = 0
                /\ r.dir = email[id] /\ r.file = detail[id]

(* C16 (amended): when no detail record is cached for the id and no valid
   marker refuses the request first, the email request fails with 404 (the
   status of the 'no email' outcome as well); 500 is the answer when the
   record exists but cannot be read.  In both cases no network call is made
   (no detail refresh, no image fetch) and no marker or other file is
   written or deleted. *)
C16_DependencyErrorIs404 ==
    \A id \in ServedIds :
      (family = "aminer" /\ ~read_json_cache(detail[id]).ok) =>
        \A force_refresh \in Forces : \A x \in EmailInputs(id) : \A of \in OutputFormats :
          \E r \in {get_scholar_email_image(detail[id], email[id], now, force_refresh, of,
                                             x[1][1], x[1][2], x[1][3], x[2][1], x[2][2])} :
             ~no_email_marker_hit(email[id], now, force_refresh) =>
                /\ r.status = (IF detail[id].exists THEN 500 ELSE 404)
                /\ ~r.hit
                /\ r.upstream = 0 /\ r.refreshes = 0 /\ r.fetches = 0 /\ r.writes = 0
                /\ r.dir = email[id] /\ r.file = detail[id] /\ r.now = now

(* an email request for an id without detail record ended in 404 and left no
   marker *)
C16_Witness ==
    /\ last.op = "email" /\ last.prior = "absent" /\ last.status = 404 /\ ~last.hit
    /\ last.upstream = 0 /\ last.fetches = 0
    /\ ~detail[last.id].exists /\ ~email[last.id][".no_email"].exists

(* C17 (as claimed): detail-then-email succeeds: after a detail request that
   fetched a person whose profile has an email-image path and wrote the
   record, an email request for the same id that no marker refuses, made
   while the upstream answers every attempt and the image fetch returns an
   image, ends with 200 and the positive record written, not with the
   '.no_email' marker. *)
C17_DetailThenEmailSucceeds ==
    family = "aminer" => \A id \in ServedIds : \A force_refresh \in Forces :
      \A x \in DetailInputs :
        \E r1 \in {get_scholar_detail(detail[id], now, force_refresh, x[1], x[2], x[3])} :
          (/\ r1.status = 200 /\ ~r1.hit /\ r1.written
           /\ fetch_aminer_web_api(x[1]).payload.email # "") =>
             \A y \in DetailInputs : \A fo \in EmailFetches : \A of \in OutputFormats :
             \A force2 \in Forces :
               (/\ y[1][1].net = "ok" /\ y[1][1].payload = fetch_aminer_web_api(x[1]).payload
                /\ y[3] = "ok"
                /\ fo.kind = "ok" /\ fo.image.format = "PNG"
                /\ ~no_email_marker_hit(email[id], r1.now, force2)) =>
                  \E r2 \in {get_scholar_email_image(r1.file, email[id], r1.now, force2, of,
                                                      y[1], y[2], y[3], fo, "ok")} :
                     /\ r2.status = 200
                     /\ r2.dir[".png"].exists /\ r2.dir[".png"].mtime = r2.now
                     /\ ~r2.dir[".no_email"].exists

(* C18: the requested format never affects what is persisted: from every
   state and under every upstream behaviour, the email request with
   output_format PNG and the one with JPEG leave the same email files and the
   same detail record and end with the same status; the only positive file
   of the email namespace is '.png', and what it holds is never the JPEG
   form, which is made for the answer only. *)
C18_FormatNotPersisted ==
    family = "aminer" => \A id \in ServedIds :
      /\ \A e \in EmailNames \ {".png", ".no_email"} : ~email[id][e].exists
      /\ email[id][".png"].exists => email[id][".png"].content.format # "JPEG"
      /\ \A force_refresh \in Forces : \A x \in EmailInputs(id) :
           \E rp \in {get_scholar_email_image(detail[id], email[id], now, force_refresh, "PNG",
                                               x[1][1], x[1][2], x[1][3], x[2][1], x[2][2])} :
           \E rj \in {get_scholar_email_image(detail[id], email[id], now, force_refresh, "JPEG",
                                               x[1][1], x[1][2], x[1][3], x[2][1], x[2][2])} :
              /\ rp.dir = rj.dir
              /\ rp.file = rj.file
              /\ rp.status = rj.status /\ rp.writes = rj.writes
              /\ rj.written => rj.dir[".png"].content.format # "JPEG"

(* a fetched image was answered as JPEG and stored as PNG *)
C18_Witness ==
    /\ last.op = "email" /\ last.fmt = "JPEG" /\ last.status = 200
    /\ last.fetches = 1 /\ last.written
    /\ last.image.format = "JPEG" /\ last.ctype = "image/jpeg"
    /\ email[last.id][".png"] = File(Picture(last.image.pic, "PNG", last.image.bg), now)

(* C19 (as claimed): a conversion failure is not swallowed into a success:
   every positive email record holds the white-background PNG form of the
   fetched image (no transparency left), and when the fetched bytes are no
   decodable image the request neither stores them as '.png' nor answers
   200. *)
C19_ConversionFailureNotSwallowed ==
    family = "aminer" => \A id \in ServedIds :
      /\ email[id][".png"].exists =>
            /\ email[id][".png"].content.format = "PNG"
            /\ email[id][".png"].content.bg \in {"white", "opaque"}
      /\ \A force_refresh \in Forces : \A x \in EmailInputs(id) : \A of \in OutputFormats :
           \E r \in {get_scholar_email_image(detail[id], email[id], now, force_refresh, of,
                                              x[1][1], x[1][2], x[1][3], x[2][1], x[2][2])} :
              (r.fetches = 1 /\ x[2][1].kind = "ok" /\ x[2][1].image.format = "undecodable") =>
                 /\ r.status # 200
                 /\ r.dir[".png"] = email[id][".png"]

(* the upstream behaviours a rejected request is checked under: the AMiner
   call answers with a person, answers 'not found', or fails twice; the image
   fetch returns an image or fails *)
RejectedUnder ==
    { x \in DetailInputs \X (EmailFetches \X {"ok"}) :
        /\ x[1][2] = 1 /\ x[1][3] = "ok"
        /\ x[1][1][2] = x[1][1][1]
        /\ \/ x[1][1][1].payload.kind = "found" /\ x[1][1][1].payload.name = 1
              /\ x[2][1].kind = "ok" /\ x[2][1].image.bg = "transparent"
           \/ x[1][1][1].payload.kind = "notfound" /\ x[2][1].kind = "error"
           \/ x[1][1][1].net = "transport" /\ x[2][1].kind = "error" }

(* C20: validation errors touch nothing: a detail or email request without
   one of the headers Authorization, X-Signature, X-Timestamp, and an email
   request whose format is not png, jpg or jpeg, ends with 400 before the
   resolver runs, whatever the cache holds and whether the upstream would
   answer or fail: no upstream call, no detail refresh, no image fetch, no
   answer from the cache, and the detail record and the email files are what
   they were. *)
C20_ValidationTouchesNothing ==
    family = "aminer" => \A id \in ServedIds : \A x \in RejectedUnder :
      \A h \in Headers : \A force_refresh \in Forces :
      /\ validate_required_headers(h) # 200 =>
              \E r \in {get_aminer_scholar_detail_endpoint(h, detail[id], now, force_refresh,
                                                            x[1][1], x[1][2], x[1][3])} :
                 /\ r.status = 400 /\ ~r.hit
                 /\ r.upstream = 0 /\ r.attempts = 0 /\ r.writes = 0
                 /\ r.file = detail[id] /\ r.now = now
      /\ \A format \in Formats :
            (\E k \in DOMAIN h : h[k] = "") \/ format \notin {"png", "jpg", "jpeg", "JPG"} =>
                \E r \in {get_scholar_email_endpoint(h, format, detail[id], email[id], now,
                                                      force_refresh, x[1][1], x[1][2], x[1][3],
                                                      x[2][1], x[2][2])} :
                   /\ r.status = 400 /\ ~r.hit
                   /\ r.upstream = 0 /\ r.attempts = 0 /\ r.refreshes = 0 /\ r.rereads = 0
                   /\ r.fetches = 0 /\ r.writes = 0
                   /\ r.file = detail[id] /\ r.dir = email[id] /\ r.now = now

(* an email request was rejected with 400 for an id whose detail record and
   email image are cached, and both are still there *)
C20_Witness ==
    /\ last.op = "email" /\ last.status = 400
    /\ last.upstream = 0 /\ last.fetches = 0 /\ last.writes = 0
    /\ read_json_cache(detail[last.id]).ok
    /\ email[last.id][".png"].exists

(* C21: clear detail cache: POST /cache/clear deletes every file of the detail
   namespace, returns files_deleted equal to the number of files that were
   there (0 for an empty namespace) and leaves the avatar and the email
   namespace as they were; after it a get_scholar_detail with
   force_refresh=false is a miss that calls upstream, for every id, at every
   later time and whatever the upstream answers.  (A step that ends with
   last.op = "clear" at an unchanged time is a step of the clear.) *)
C21_ClearDetailCache ==
    [][(last'.op = "clear" /\ now' = now) =>
        /\ \A i \in Ids : ~detail'[i].exists
        /\ last'.files_deleted = Cardinality({ i \in Ids : detail[i].exists })
        /\ (\A i \in Ids : ~detail[i].exists) => last'.files_deleted = 0
        /\ avatar' = avatar /\ email' = email
        /\ \A i \in Ids : \A t \in LaterTimes(now) : \A x \in DetailInputs :
              \E r \in {get_scholar_detail(detail'[i], t, FALSE, x[1], x[2], x[3])} :
                 ~r.hit /\ r.upstream = 1]_vars

(* the clear deleted the detail files of two ids and left a cached email
   image where it was *)
C21_Witness ==
    /\ last.op = "clear" /\ last.files_deleted = 2
    /\ \A i \in Ids : ~detail[i].exists
    /\ email["A"][".png"].exists

(* C22: accepted race on concurrent misses: there is no single-flight; every
   detail request whose cache check was a miss makes its own upstream call,
   also when it overlaps another request for the same id (two overlapping
   misses: two upstream calls), and every one of them whose call returned a
   person writes the record.  The record is then the complete response of
   the request whose write happened last, as written at that time: never a
   mixture of two responses. *)
C22_AcceptedRace ==
    family = "aminer" => \A id \in ServedIds :
      \E D \in {{ k \in Slots : inflight[k].stage = "done" /\ inflight[k].id = id
                                 /\ ~inflight[k].hit }} :
        /\ \A k \in D : inflight[k].upstream = 1
        /\ \A k \in D : inflight[k].status = 200 => inflight[k].writes = 1
        /\ \A k \in D :
              (/\ inflight[k].status = 200 /\ inflight[k].written
               /\ ~\E j \in D : /\ inflight[j].order > inflight[k].order
                                 /\ inflight[j].written) =>
                 detail[id] = File(JsonDump(inflight[k].json), inflight[k].finished)

(* two requests for one id overlapped, both got a person with different log
   ids and both wrote; the record is the response of the second answer *)
C22_Witness ==
    /\ \A k \in Slots : /\ inflight[k].stage = "done" /\ inflight[k].raced
                         /\ inflight[k].id = "A"
                         /\ inflight[k].status = 200 /\ inflight[k].written
                         /\ inflight[k].upstream = 1
    /\ inflight[1].json # inflight[2].json
    /\ inflight[1].order = 2
    /\ detail["A"].content = JsonDump(inflight[1].json)

(* C23 (as claimed): a successful avatar resolution clears the negative state:
   when get_scholar_avatar downloads an image that is not the default one and
   the cache write succeeds, the positive record holds the downloaded bytes
   and no '.default' marker is left, and a call with force_refresh=false made
   while that record's age is below avatar_cache_ttl returns the same bytes
   without a scrape or a download. *)
C23_SuccessClearsNegativeState ==
    family = "avatar" => \A id \in ServedIds : \A force_refresh \in Forces :
      \A x \in AvatarInputs :
        \E r \in {get_scholar_avatar(avatar[id], now, force_refresh, x[1], x[2], x[3])} :
          (r.status = 200 /\ r.downloads = 1 /\ r.written) =>
            /\ \E e \in {".jpg", ".jpeg", ".png"} : r.dir[e] = File(r.image, now)
            /\ ~r.dir[".default"].exists
            /\ \A t2 \in LaterTimes(now) : (t2 - now < avatar_cache_ttl) =>
                 \A y \in AvatarInputs :
                   \E r2 \in {get_scholar_avatar(r.dir, t2, FALSE, y[1], y[2], y[3])} :
                      /\ r2.status = 200
                      /\ r2.image = r.image
                      /\ r2.scrapes = 0 /\ r2.downloads = 0

(* C24 (as claimed): avatar records are overwritten wholesale: when an id has
   a positive record and a re-resolution (forced, or made after the record
   expired) downloads and stores new bytes, a later call with
   force_refresh=false made while the new record's age is below
   avatar_cache_ttl returns the newly stored bytes, also when the new image
   has another extension than the old record. *)
C24_AvatarOverwrittenWholesale ==
    family = "avatar" => \A id \in ServedIds :
      (\E e \in {".jpg", ".jpeg", ".png"} : avatar[id][e].exists) =>
        \A force_refresh \in Forces : \A x \in AvatarInputs :
          \E r \in {get_scholar_avatar(avatar[id], now, force_refresh, x[1], x[2], x[3])} :
            (r.status = 200 /\ ~r.hit /\ r.written) =>
               \A t2 \in LaterTimes(now) : (t2 - now < avatar_cache_ttl) =>
                  \A y \in NoUrlInputs :
                     get_scholar_avatar(r.dir, t2, FALSE, y[1], y[2], y[3]).image = r.image

(* C25: avatar failure kinds map to fixed status codes: a marker hit, a
   scrape that finds no URL and a download of DEFAULT_AVATAR_SIZE bytes end
   with 404; a timeout of the scrape or of the download ends with 504; any
   other failure of the scrape (non-200 answer, other exception) or of the
   download (HTTP status, other exception) ends with 502; a call ends with 200
   only when it returns bytes, from a valid record or from a download that
   is not default-sized. *)
C25_AvatarFailureStatusCodes ==
    family = "avatar" => \A id \in ServedIds : \A force_refresh \in Forces :
      \A x \in AvatarInputs :
        \E r \in {get_scholar_avatar(avatar[id], now, force_refresh, x[1], x[2], x[3])} :
          /\ r.status \in {200, 404, 502, 504}
          /\ (avatar[id][".default"].exists /\ ~force_refresh) => r.status = 404
          /\ (r.scrapes = 1 /\ x[1].kind = "absent") => r.status = 404
          /\ (r.downloads = 1 /\ x[2].kind = "ok"
                /\ x[2].image.len = DEFAULT_AVATAR_SIZE) => r.status = 404
          /\ (r.scrapes = 1 /\ x[1].kind = "timeout") => r.status = 504
          /\ (r.downloads = 1 /\ x[2].kind = "timeout") => r.status = 504
          /\ (r.scrapes = 1 /\ x[1].kind \in {"http", "error"}) => r.status = 502
          /\ (r.downloads = 1 /\ x[2].kind \in {"status", "error"}) => r.status = 502
          /\ r.status = 200 =>
                /\ r.image # NoImage /\ r.image.len # DEFAULT_AVATAR_SIZE
                /\ \/ r.hit /\ r.scrapes = 0
                   \/ r.downloads = 1 /\ x[1].kind = "found" /\ x[2].kind = "ok"
          /\ r.status # 200 => r.image = NoImage

(* the download of an avatar timed out and the request ended with 504 *)
C25_Witness ==
    /\ last.op = "avatar" /\ last.status = 504
    /\ last.scrapes = 1 /\ last.downloads = 1 /\ last.image = NoImage

(* C27: an avatar negative marker is created only for confirmed absence:
   get_scholar_avatar creates or refreshes the '.default' marker only when
   the scrape completed and found no URL, or the download completed and
   returned exactly DEFAULT_AVATAR_SIZE bytes; in every other call the marker
   is left as it was or (after a successful write) removed.  In the two
   cases the marker is written at the time of the call and the call fails
   with 404, and every later call with force_refresh=false fails with 404
   without a scrape. *)
C27_MarkerOnlyForConfirmedAbsence ==
    family = "avatar" => \A id \in ServedIds : \A force_refresh \in Forces :
      \A x \in AvatarInputs :
        \E r \in {get_scholar_avatar(avatar[id], now, force_refresh, x[1], x[2], x[3])} :
          \E absent \in {r.scrapes = 1 /\ x[1].kind = "absent"} :
          \E default \in {r.downloads = 1 /\ x[2].kind = "ok"
                             /\ x[2].image.len = DEFAULT_AVATAR_SIZE} :
            /\ ~(absent \/ default) =>
                  \/ r.dir[".default"] = avatar[id][".default"]
                  \/ ~r.dir[".default"].exists /\ r.written
            /\ (absent \/ default) =>
                  /\ r.status = 404
                  /\ r.dir = [avatar[id] EXCEPT ![".default"] = File(NoContent, now)]
                  /\ \A t2 \in LaterTimes(now) : \A y \in AvatarInputs :
                        \E r2 \in {get_scholar_avatar(r.dir, t2, FALSE, y[1], y[2], y[3])} :
                           r2.status = 404 /\ r2.scrapes = 0 /\ r2.downloads = 0

(* a scrape found no avatar URL: the request ended with 404 and wrote the
   marker *)
C27_Witness ==
    /\ last.op = "avatar" /\ last.status = 404 /\ ~last.hit
    /\ last.scrapes = 1 /\ last.downloads = 0
    /\ avatar[last.id][".default"] = File(NoContent, now)

(* C26 (as claimed): a malformed provider response is an upstream error: when
   the attempt that the provider answers carries a body without
   data[0].data[0], or a body that is not JSON, get_scholar_detail fails with
   502 and writes nothing to the cache. *)
C26_MalformedResponseIs502 ==
    family = "aminer" => \A id \in ServedIds : \A force_refresh \in Forces :
      \A x \in DetailInputs :
        \E r \in {get_scholar_detail(detail[id], now, force_refresh, x[1], x[2], x[3])} :
          (/\ ~r.hit
           /\ \E k \in 1..max_attempts :
                 /\ \A j \in 1..(k - 1) : x[1][j].net # "ok"
                 /\ x[1][k].net = "ok"
                 /\ x[1][k].payload.kind \in {"malformed", "nonjson"}) =>
             /\ r.status = 502
             /\ r.writes = 0
             /\ r.file = detail[id]

(* C28: force refresh bypasses markers and positive records in the avatar and
   the email resolver.  With force_refresh=true get_scholar_avatar is never
   answered from the marker or a record and always scrapes, and ends with 404
   only when the scrape finds no URL or the download is default-sized;
   get_scholar_email_image is never answered from the marker or the positive
   record, and when the detail record carries an email path it always
   fetches the image.  The answer of either call is the one it would give
   with no marker and no positive record in the directory. *)
C28_ForceRefreshBypassesMarkers ==
    \A id \in ServedIds :
      /\ family = "avatar" =>
           \A x \in AvatarInputs :
             \E r \in {get_scholar_avatar(avatar[id], now, TRUE, x[1], x[2], x[3])} :
             \E r0 \in {get_scholar_avatar([e \in AvatarNames |-> NoFile], now, TRUE,
                                           x[1], x[2], x[3])} :
                /\ ~r.hit /\ r.scrapes = 1
                /\ r.status = 404 =>
                      \/ x[1].kind = "absent"
                      \/ x[2].kind = "ok" /\ x[2].image.len = DEFAULT_AVATAR_SIZE
                /\ r.status = r0.status /\ r.image = r0.image /\ r.ctype = r0.ctype
      /\ family = "aminer" =>
           \A x \in EmailInputs(id) : \A of \in OutputFormats :
             \E r \in {get_scholar_email_image(detail[id], email[id], now, TRUE, of,
                                                x[1][1], x[1][2], x[1][3], x[2][1], x[2][2])} :
             \E r0 \in {get_scholar_email_image(detail[id], [e \in EmailNames |-> NoFile], now,
                                                 TRUE, of,
                                                 x[1][1], x[1][2], x[1][3], x[2][1], x[2][2])} :
                /\ ~r.hit
                /\ email_path_of(read_json_cache(detail[id])) # "" => r.fetches = 1
                /\ r.status = r0.status /\ r.image = r0.image /\ r.ctype = r0.ctype

(* a forced request passed what the cache holds: an avatar request went to
   the scrape although the marker was there, or an email request went to the
   image fetch although a valid positive record was there (the request
   failed, so the marker or record is still there) *)
C28_Witness ==
    /\ last.force /\ ~last.hit /\ last.status \in {502, 504}
    /\ \/ /\ last.op = "avatar" /\ last.scrapes = 1
          /\ avatar[last.id][".default"].exists
       \/ /\ last.op = "email" /\ last.fetches = 1
          /\ is_cache_valid(email[last.id][".png"], email_cache_ttl, now)

(* C29: an unreadable record is a miss: when the detail record exists and its
   age is below aminer_cache_ttl but it cannot be parsed, get_scholar_detail
   with force_refresh=false does not fail on it: it makes one upstream call
   and ends as the same call would without any record; when the upstream
   returns a person it answers 200 with the fresh response and, the write
   succeeding, overwrites the record with it. *)
C29_UnreadableRecordIsMiss ==
    family = "aminer" => \A id \in ServedIds :
      (/\ detail[id].exists
       /\ now - detail[id].mtime < aminer_cache_ttl
       /\ \/ Len(detail[id].content) # 3
          \/ detail[id].content[1] # "{"
          \/ detail[id].content[3] # "}") =>
        \A x \in DetailInputs :
          \E r \in {get_scholar_detail(detail[id], now, FALSE, x[1], x[2], x[3])} :
          \E r0 \in {get_scholar_detail(NoFile, now, FALSE, x[1], x[2], x[3])} :
            /\ ~r.hit /\ r.upstream = 1
            /\ r.status = r0.status /\ r.json = r0.json /\ r.now = r0.now
            /\ (fetch_aminer_web_api(x[1]).status = 200
                  /\ fetch_aminer_web_api(x[1]).payload.kind = "found") =>
                  /\ r.status = 200
                  /\ r.json.log_id = x[2]
                  /\ r.json.name = fetch_aminer_web_api(x[1]).payload.name
                  /\ x[3] = "ok" => r.file = File(JsonDump(r.json), r.now)
                  /\ x[3] = "fail" => r.file = detail[id]
            /\ r.status # 200 => r.file = detail[id]

(* a non-forced request met a truncated record younger than the TTL, went
   upstream and replaced the record by the response *)
C29_Witness ==
    /\ last.op = "detail" /\ ~last.force /\ last.prior = "unreadable"
    /\ now < aminer_cache_ttl
    /\ ~last.hit /\ last.upstream = 1 /\ last.status = 200 /\ last.written
    /\ detail[last.id] = File(JsonDump(last.json), now)

(* C30 (as claimed): cache writes are best-effort: when the write of the
   positive record fails after a successful upstream resolution,
   get_scholar_detail, get_scholar_avatar and get_scholar_email_image still
   return the resolved result with 200, and the next call with
   force_refresh=false is a miss that resolves again (it calls upstream,
   scrapes, fetches the image). *)
C30_WriteFailureThenMiss ==
    \A id \in ServedIds : \A force_refresh \in Forces :
      /\ family = "aminer" =>
           \A x \in DetailInputs :
             \E r \in {get_scholar_detail(detail[id], now, force_refresh, x[1], x[2], x[3])} :
               (r.writes = 1 /\ ~r.written) =>
                  /\ r.status = 200
                  /\ \A y \in DetailInputs :
                       \E r2 \in {get_scholar_detail(r.file, r.now, FALSE, y[1], y[2], y[3])} :
                          ~r2.hit /\ r2.upstream = 1
      /\ family = "avatar" =>
           \A x \in AvatarInputs :
             \E r \in {get_scholar_avatar(avatar[id], now, force_refresh, x[1], x[2], x[3])} :
               (r.writes = 1 /\ ~r.written) =>
                  /\ r.status = 200
                  /\ \A y \in NoUrlInputs :
                       \E r2 \in {get_scholar_avatar(r.dir, now, FALSE, y[1], y[2], y[3])} :
                          ~r2.hit /\ r2.scrapes = 1
      /\ family = "aminer" =>
           \A x \in EmailInputs(id) : \A of \in OutputFormats :
             \E r \in {get_scholar_email_image(detail[id], email[id], now, force_refresh, of,
                                                x[1][1], x[1][2], x[1][3], x[2][1], x[2][2])} :
               (r.writes = 1 /\ ~r.written) =>
                  /\ r.status = 200
                  /\ \A fo \in EmailFetches :
                       \E r2 \in {get_scholar_email_image(r.file, r.dir, r.now, FALSE, of,
                                                           CanonicalAttempts, 1, "ok", fo, "ok")} :
                          ~r2.hit /\ r2.fetches = 1

(* C30 (amended): cache writes are best-effort: when the positive record
   cannot be opened for writing after a successful upstream resolution, the
   three resolvers still return the resolved result with 200 and leave the
   cache files of the id as they were before the call (the avatar resolver
   then leaves a '.default' marker in place as well).  The next call with
   force_refresh=false is therefore answered as it would have been before
   the failed write: it is a miss that resolves again when the failing call
   was not forced, and after a forced call it is answered from the earlier
   record or marker when one is there and valid. *)
C30_WriteFailureLeavesCache ==
    \A id \in ServedIds : \A force_refresh \in Forces :
      /\ family = "aminer" =>
           \A x \in DetailInputs :
             \E r \in {get_scholar_detail(detail[id], now, force_refresh, x[1], x[2], x[3])} :
               (r.writes = 1 /\ ~r.written) =>
                  /\ r.status = 200
                  /\ r.json.log_id = x[2] /\ r.json.name = fetch_aminer_web_api(x[1]).payload.name
                  /\ r.file = detail[id]
                  /\ \A y \in DetailInputs :
                       \E r2 \in {get_scholar_detail(r.file, r.now, FALSE, y[1], y[2], y[3])} :
                          /\ ~force_refresh => ~r2.hit /\ r2.upstream = 1
                          /\ r2.hit => /\ force_refresh
                                       /\ r.now - detail[id].mtime < aminer_cache_ttl
                                       /\ r2.json = detail[id].content[2]
      /\ family = "avatar" =>
           \A x \in AvatarInputs :
             \E r \in {get_scholar_avatar(avatar[id], now, force_refresh, x[1], x[2], x[3])} :
               (r.writes = 1 /\ ~r.written) =>
                  /\ r.status = 200 /\ r.image = x[2].image
                  /\ r.dir = avatar[id]
                  /\ \A y \in NoUrlInputs :
                       \E r2 \in {get_scholar_avatar(r.dir, now, FALSE, y[1], y[2], y[3])} :
                          /\ ~force_refresh => ~r2.hit /\ r2.scrapes = 1
                          /\ r2.hit =>
                                /\ force_refresh
                                /\ \/ r2.status = 404 /\ avatar[id][".default"].exists
                                   \/ /\ r2.status = 200
                                      /\ \E e \in {".jpg", ".jpeg", ".png"} :
                                            /\ avatar[id][e].exists
                                            /\ now - avatar[id][e].mtime < avatar_cache_ttl
                                            /\ r2.image = avatar[id][e].content
      /\ family = "aminer" =>
           \A x \in EmailInputs(id) : \A of \in OutputFormats :
             \E r \in {get_scholar_email_image(detail[id], email[id], now, force_refresh, of,
                                                x[1][1], x[1][2], x[1][3], x[2][1], x[2][2])} :
               (r.writes = 1 /\ ~r.written) =>
                  /\ r.status = 200 /\ r.image.pic = x[2][1].image.pic
                  /\ r.dir = email[id]
                  /\ \A fo \in EmailFetches :
                       \E r2 \in {get_scholar_email_image(r.file, r.dir, r.now, FALSE, of,
                                                           CanonicalAttempts, 1, "ok", fo, "ok")} :
                          /\ ~force_refresh => ~r2.hit /\ r2.fetches = 1
                          /\ r2.hit =>
                                /\ force_refresh
                                /\ r.now - email[id][".png"].mtime < email_cache_ttl
                                /\ r2.status = 200
                                /\ r2.image.pic = email[id][".png"].content.pic

(* a request resolved upstream, failed to write the record and was answered
   with 200 all the same, the cache holding what it held before: a forced
   detail request over a record that is still valid, or a forced avatar
   request over a marker *)
C30_Witness ==
    /\ last.status = 200 /\ last.writes = 1 /\ ~last.written /\ last.force
    /\ \/ /\ last.op = "detail" /\ last.upstream = 1
          /\ read_json_cache(detail[last.id]).ok
          /\ read_json_cache(detail[last.id]).value # last.json
          /\ now - detail[last.id].mtime < aminer_cache_ttl
       \/ /\ last.op = "avatar" /\ last.downloads = 1
          /\ avatar[last.id][".default"].exists

(* C31: the streaming scan is equivalent to a full scan: however the page is
   split into chunks, the URL that fetch_avatar_url_from_firecrawl returns is
   the one a search over the fully buffered page returns (None exactly when
   the page holds no match of the avatar pattern), also when the URL
   straddles a chunk boundary or the point where the buffer is truncated, and
   it never ends with a size suffix. *)
C31_StreamingEqualsFullScan ==
    (family = "scan" /\ scan.stage = "returned") =>
        /\ scan.url = strip_size(re_search(scan.page))
        /\ scan.url # NoText => scan.url[Len(scan.url)] \in {"p", "j"}

(* C31 as amended: the same, for the pages in which no match of the avatar
   pattern is longer than the part of the buffer that a truncation keeps. *)
C31_StreamingEqualsFullScanOfShortUrls ==
    (/\ family = "scan" /\ scan.stage = "returned"
     /\ \A i \in 1..Len(scan.page) :
           avatar_pattern(scan.page, i) # 0 =>
               avatar_pattern(scan.page, i) - i + 1 <= keep_chars) =>
        /\ scan.url = strip_size(re_search(scan.page))
        /\ scan.url # NoText => scan.url[Len(scan.url)] \in {"p", "j"}

(* a URL with a size suffix in the page was cut by a truncation of the
   buffer, and the scan returned it without the suffix *)
C31_Witness ==
    /\ family = "scan" /\ scan.stage = "returned"
    /\ scan.url = <<"h", "d", "p">>
    /\ \E i \in 1..Len(scan.page) :
          /\ avatar_pattern(scan.page, i) = i + 4
          /\ i <= scan.cut /\ scan.cut < i + 2
          /\ \A m \in 1..(i - 1) : avatar_pattern(scan.page, m) = 0

(* C32: the "no email" outcome: whenever get_scholar_email_image gets past
   the marker check and the read of the detail record and ends up without an
   email path (the record carries none, or the refresh of a record of the old
   format failed or brought none), it fails with 404 without fetching an
   image, and afterwards the ".no_email" marker exists, stamped with the time
   of the call, and none of .png, .jpg, .gif, .webp (nor any other positive
   email record) exists for the id. *)
C32_NoEmailOutcome ==
    family = "aminer" => \A id \in ServedIds : \A x \in EmailInputs(id) :
      \A force_refresh \in Forces :
        (/\ force_refresh \/ ~is_cache_valid(email[id][".no_email"], email_cache_ttl, now)
         /\ person_cache_status(detail[id]) = 200
         /\ extract_email_path(detail[id], now, x[1][1], x[1][2], x[1][3]).path = "") =>
          \A of \in OutputFormats :
            \E r \in {get_scholar_email_image(detail[id], email[id], now, force_refresh, of,
                                               x[1][1], x[1][2], x[1][3], x[2][1], x[2][2])} :
               /\ r.status = 404 /\ ~r.hit /\ r.fetches = 0
               /\ r.dir[".no_email"] = File(NoContent, r.now)
               /\ \A e \in {".png", ".jpg", ".gif", ".webp"} : ~r.dir[e].exists
               /\ \A e \in EmailNames \ {".no_email"} : ~r.dir[e].exists

(* an id has a cached email image and a detail record that was rewritten
   since and carries no email path any more; the request refreshes the
   record, finds no path, removes the image and creates the marker *)
C32_Witness ==
    /\ family = "aminer"
    /\ \E id \in ServedIds :
          /\ email[id][".png"].exists
          /\ ~email[id][".no_email"].exists
          /\ read_json_cache(detail[id]).ok
          /\ \E x \in EmailInputs(id) :
             \E r \in {get_scholar_email_image(detail[id], email[id], now, FALSE, "PNG",
                                                x[1][1], x[1][2], x[1][3], x[2][1], x[2][2])} :
                /\ r.status = 404 /\ r.refreshes = 1 /\ r.upstream = 1
                /\ r.dir[".no_email"].exists /\ ~r.dir[".png"].exists

(* C33: key isolation: a call of the avatar resolver for one id never
   creates, modifies or deletes a record or marker of another id: for every
   requested id and every other id, the files of the other id are after the
   call what they were before it. *)
C33_KeyIsolation ==
    family = "avatar" =>
      \A rid \in RawIds : \A force_refresh \in Forces : \A x \in AvatarInputs :
        \E r \in {get_scholar_avatar(avatar[avatar_files_key(rid)], now, force_refresh,
                                     x[1], x[2], x[3])} :
        \E after \in {[avatar EXCEPT ![avatar_files_key(rid)] = r.dir]} :
           \A other \in RawIds \ {rid} :
              after[avatar_files_key(other)] = avatar[avatar_files_key(other)]

(* C34: failure caching of the backend's avatar proxy: when get_avatar
   contacts the remote for a photo URL and the fetch fails (a status other
   than 200, or a request error), the ".failed" marker of the URL exists
   afterwards; every request for the URL made while the marker's age is at
   most avatar_fail_cache_ttl is answered 404 without a request to the
   remote and changes nothing; the first request made when the age exceeds
   the TTL contacts the remote again, and the old marker is gone (no marker
   is left when that fetch succeeds, a new one stamped with the time of the
   request when it fails).  An image that is stored is served, with 200 and
   without a request to the remote. *)
C34_ProxyFailureCaching ==
    family = "proxy" => \A url \in PhotoUrls : \A remote \in Remotes :
      \E r \in {get_avatar(backend.files[url], now, remote)} :
        /\ (r.remote = 1 /\ remote.kind # "ok") =>
             /\ r.status \in {404, 502}
             /\ r.files.failed.exists /\ r.files.failed.mtime = now
             /\ ~r.files.image.exists
             /\ \A u \in now..(MaxNow + AvatarFailCacheTtl + 1) : \A again \in Remotes :
                  \E r2 \in {get_avatar(r.files, u, again)} :
                    IF u - now <= AvatarFailCacheTtl
                    THEN r2.status = 404 /\ r2.remote = 0 /\ r2.files = r.files
                    ELSE /\ r2.remote = 1
                         /\ r2.files.failed.exists =>
                               again.kind # "ok" /\ r2.files.failed.mtime = u
                         /\ again.kind = "ok" =>
                               r2.status = 200 /\ ~r2.files.failed.exists
        /\ backend.files[url].image.exists =>
             /\ r.status = 200 /\ r.remote = 0 /\ r.hit
             /\ r.image = backend.files[url].image.content
             /\ r.files = backend.files[url]
        /\ (r.remote = 1 /\ remote.kind = "ok") =>
             \A u \in now..(MaxNow + AvatarFailCacheTtl + 1) : \A again \in Remotes :
               \E r2 \in {get_avatar(r.files, u, again)} :
                  r2.status = 200 /\ r2.remote = 0 /\ r2.image = remote.image

(* a request was refused from the marker, without a request to the remote,
   when the marker's age was exactly the TTL *)
C34_Witness ==
    /\ family = "proxy"
    /\ last.op = "proxy" /\ last.status = 404 /\ last.downloads = 0 /\ ~last.hit
    /\ backend.files[last.id].failed.exists
    /\ now - backend.files[last.id].failed.mtime = AvatarFailCacheTtl

(* C35: marker/record exclusivity: after any sequence of sequential avatar
   and email requests no id has both a negative marker and a positive record
   in the same namespace: not the ".default" marker next to a cached avatar,
   not the ".no_email" marker next to a cached email image. *)
C35_MarkerRecordExclusive ==
    \A id \in Ids :
      /\ ~(/\ avatar[id][".default"].exists
           /\ \E e \in AvatarNames \ {".default"} : avatar[id][e].exists)
      /\ ~(/\ email[id][".no_email"].exists
           /\ \E e \in EmailNames \ {".no_email"} : email[id][e].exists)

(* C36: every stored avatar is findable: the extension get_file_extension
   chooses is one of .jpg, .jpeg, .png for every content type and every URL
   that discovery can return, so a positive record that get_scholar_avatar
   writes is at a location the lookup examines, with no marker left beside
   it, and the next call with force_refresh=false is a cache hit answered 200
   without a scrape: with the image just written whenever no record of
   another extension exists. *)
C36_StoredAvatarFindable ==
    family = "avatar" =>
      /\ \A ct \in ContentTypes : \A u \in UrlSuffixes : \A img \in AvatarImages :
            get_file_extension(download_avatar([kind |-> "ok", image |-> img,
                                                ctype |-> ct]).ctype, u)
                \in {".jpg", ".jpeg", ".png"}
      /\ \A id \in ServedIds : \A force_refresh \in Forces : \A x \in AvatarInputs :
           \E r \in {get_scholar_avatar(avatar[id], now, force_refresh, x[1], x[2], x[3])} :
             r.written =>
               /\ ~r.dir[".default"].exists
               /\ \E e \in {".jpg", ".jpeg", ".png"} :
                     /\ r.dir[e] = File(x[2].image, now)
                     /\ \A o \in AvatarNames \ {e, ".default"} : r.dir[o] = avatar[id][o]
                     /\ \E r2 \in {get_scholar_avatar(r.dir, now, FALSE, x[1], x[2], x[3])} :
                           /\ r2.hit /\ r2.status = 200 /\ r2.scrapes = 0
                           /\ r2.dir = r.dir
                           /\ (\A o \in AvatarNames \ {e} : ~r.dir[o].exists) =>
                                 r2.image = x[2].image

(* an image that came without a usable content type was stored under the
   extension of its URL, .png, where the lookup finds it *)
C36_Witness ==
    /\ family = "avatar"
    /\ last.op = "avatar" /\ last.written /\ last.status = 200
    /\ last.ctype = "application/octet-stream"
    /\ avatar[last.id][".png"] = File(last.image, now)
    /\ ~avatar[last.id][".jpg"].exists /\ ~avatar[last.id][".jpeg"].exists

(* C37: no torn reads inside one process: under every interleaving of detail
   requests at their await, the detail file of an id is a file of an earlier
   run or the complete text of the response of a request that has written
   it, and a request answered from the cache returns a complete response:
   the document of a readable file of an earlier run or the response that
   another request wrote before it. *)
C37_NoTornReads ==
    family = "aminer" =>
      /\ \A id \in Ids :
            \/ detail[id] \in EarlierDetailFiles
            \/ \E k \in Slots :
                  /\ inflight[k].stage = "done" /\ inflight[k].written
                  /\ inflight[k].id = id
                  /\ detail[id] = File(JsonDump(inflight[k].json), inflight[k].finished)
      /\ \A k \in Slots :
            (inflight[k].stage = "done" /\ inflight[k].hit) =>
               /\ inflight[k].status = 200 /\ inflight[k].upstream = 0
               /\ \/ \E f \in EarlierDetailFiles :
                        /\ f.exists /\ Len(f.content) = 3
                        /\ f.content = JsonDump(inflight[k].json)
                  \/ \E j \in Slots \ {k} :
                        /\ inflight[j].stage = "done" /\ inflight[j].written
                        /\ inflight[j].id = inflight[k].id
                        /\ inflight[j].order < inflight[k].order
                        /\ inflight[j].json = inflight[k].json

(* a request was answered from the cache with the response that the other
   request, which had awaited the upstream, wrote before it *)
C37_Witness ==
    /\ family = "aminer"
    /\ \E k \in Slots : \E j \in Slots \ {k} :
          /\ inflight[k].stage = "done" /\ inflight[k].hit
          /\ inflight[j].stage = "done" /\ inflight[j].written
          /\ inflight[j].order < inflight[k].order
          /\ inflight[j].json = inflight[k].json
          /\ detail[inflight[k].id] = File(JsonDump(inflight[j].json), inflight[j].finished)
          /\ \A f \in EarlierDetailFiles : f.content # detail[inflight[k].id].content

(* C38: freshness of the backend's JSON cache: the data that
   load_json_file(path) returns was read from disk at most cache_ttl_seconds
   before the call, whatever the sequence and timing of the calls. *)
C38_JsonCacheFresh ==
    family = "json" => \A path \in JsonPaths :
      now - load_json_file(backend, now, path).read_at <= CacheTtlSeconds

====
